---- MODULE Spec2Model ----
(***************************************************************************)
(* A model of golib/slim: the indentation-tracking tokenizer               *)
(* (parser/scanner.go), the recursive-descent parser with extend / named   *)
(* block inheritance (parser/parser.go) and the code generator             *)
(* (Compiler, second half of parser/scanner.go).                           *)
(*                                                                         *)
(* Text is modelled as sequences of one-character strings, so that the     *)
(* regular expressions of the tokenizer and the string operations of the   *)
(* generator are computed on characters, as the code computes them.        *)
(***************************************************************************)
EXTENDS Integers, Sequences, FiniteSets, TLC

VARIABLES
    scan,       \* the scanner struct under a token pump (SpecScan)
    tokens,     \* every token the pump's Next() calls have returned, in order
    calls,      \* what each of the pump's Next() calls met and did, in order
    scanPanic,  \* the panic message that ended the pump, or ""
    source,     \* the text the parser was made for, as lines (Spec)
    files,      \* the file system: the lines of every readable file
    options,    \* the Options every Compiler is given
    parser,     \* the Parser struct
    store,      \* the NamedBlock objects the parsers allocated (the heap)
    parseErr,   \* the panic Parse() ended with, if it did
    outputs,    \* the results of the CompileString calls made so far
    parses,     \* how many times Parse() was called again after it succeeded
    exprIn,     \* the expression handed to visitExpression (SpecExpr)
    lowered     \* what the visitExpression calls made so far wrote and returned

scanVars == <<scan, tokens, calls, scanPanic>>

parseVars == <<source, files, options, parser, store, parseErr, outputs, parses>>

exprVars == <<exprIn, lowered>>

vars == <<scan, tokens, calls, scanPanic, source, files, options, parser, store,
         parseErr, outputs, parses, exprIn, lowered>>

-----------------------------------------------------------------------------
(* Bounds of the model.                                                    *)

\* lines of a source given to the token pump
MaxLines == 3

\* top-level constructs of a source given to the parser
MaxItems == 2

\* CompileString calls on the tree of one source
MaxCompiles == 2

\* further Parse() calls on a parser that has parsed
MaxParses == 2

\* map iterations of one compile whose order is chosen freely
MaxIterations == 2

\* keys of an attribute map whose orders are all covered
MaxAttribNames == 2

-----------------------------------------------------------------------------
(* Characters and strings.                                                 *)

Space == {" ", "\t", "\n", "\r"}

Letters == {"a", "b", "c", "d", "e", "f", "g", "h", "i", "j", "k", "l", "m",
            "n", "o", "p", "q", "r", "s", "t", "u", "v", "w", "x", "y", "z",
            "A", "B", "C", "D", "E", "F", "G", "H", "I", "J", "K", "L", "M",
            "N", "O", "P", "Q", "R", "S", "T", "U", "V", "W", "X", "Y", "Z"}

Digits == {"0", "1", "2", "3", "4", "5", "6", "7", "8", "9"}

\* \w of Go's regexp: [0-9A-Za-z_]
WordChars == Letters \cup Digits \cup {"_"}

\* [0-9a-zA-Z_\-\. \/] of rimport, rextend and rblock
PathChars == WordChars \cup {"-", ".", " ", "/"}

Drop(s, n) == SubSeq(s, n + 1, Len(s))

Take(s, n) == SubSeq(s, 1, n)

HasPrefix(s, p) == Len(p) <= Len(s) /\ SubSeq(s, 1, Len(p)) = p

\* the literal p occurs somewhere in s
Contains(s, p) == \E i \in 0..(Len(s) - Len(p)) : SubSeq(s, i + 1, i + Len(p)) = p

\* length of the longest prefix of s made of characters of S (a greedy S*)
LeadLen(s, S) ==
    CHOOSE n \in 0..Len(s) :
        /\ \A i \in 1..n : s[i] \in S
        /\ (n = Len(s) \/ s[n + 1] \notin S)

\* length of the longest prefix of s made of characters outside S
LeadLenNot(s, S) ==
    CHOOSE n \in 0..Len(s) :
        /\ \A i \in 1..n : s[i] \notin S
        /\ (n = Len(s) \/ s[n + 1] \in S)

\* length of s without its trailing characters of S
TrailKeep(s, S) ==
    CHOOSE n \in 0..Len(s) :
        /\ \A i \in (n + 1)..Len(s) : s[i] \in S
        /\ (n = 0 \/ s[n] \notin S)

\* strings.TrimRightFunc(buf, unicode.IsSpace)
TrimRight(s) == Take(s, TrailKeep(s, Space))

AllIn(s, S) == \A i \in 1..Len(s) : s[i] \in S

RECURSIVE Repeat(_, _)
Repeat(c, n) == IF n <= 0 THEN <<>> ELSE <<c>> \o Repeat(c, n - 1)

-----------------------------------------------------------------------------
(* Tokens.                                                                 *)

\* a token: Kind, Value and the Data map (absent keys read as empty)
Tok(kind, value, data) == [Kind |-> kind, Value |-> value, Data |-> data]

\* the nil *token
NoTok == [Kind |-> "nil"]

NoData == [Mode |-> ""]

tokOutdentTok == Tok("tokOutdent", <<>>, NoData)

kwDoctype == <<"d", "o", "c", "t", "y", "p", "e">>
kwBang == <<"!", "!", "!">>
kwHtml == <<"h", "t", "m", "l">>
kwIf == <<"i", "f">>
kwElsif == <<"e", "l", "s", "i", "f">>
kwElse == <<"e", "l", "s", "e">>
kwImport == <<"i", "m", "p", "o", "r", "t">>
kwExtend == <<"e", "x", "t", "e", "n", "d">>
kwBlock == <<"b", "l", "o", "c", "k">>
kwAppend == <<"a", "p", "p", "e", "n", "d">>
kwPrepend == <<"p", "r", "e", "p", "e", "n", "d">>
kwEach == <<"e", "a", "c", "h">>
kwIn == <<"i", "n">>
kwStyle == <<"s", "t", "y", "l", "e">>
kwScript == <<"s", "c", "r", "i", "p", "t">>

-----------------------------------------------------------------------------
(* The scanner.                                                            *)

\* newScanner: reader holds the input still unread, a sequence of lines;
\* line i is [text |-> characters, nl |-> whether a newline terminates it]
newScanner(input) ==
    [reader |-> input, indents |-> <<>>, stash |-> <<>>,
     state |-> "scnNewLine", buffer |-> <<>>,
     line |-> -1, column |-> 0,
     lastTokenLine |-> 0, lastTokenColumn |-> 0, lastTokenSize |-> 0,
     readRaw |-> FALSE]

\* scanner.readline: does nothing while the buffer holds text; otherwise
\* reads up to the next newline.  A read that meets end of input (with or
\* without text before it) sets scnEOF and leaves the buffer as it was.
readline(s) ==
    IF Len(s.buffer) > 0 THEN s
    ELSE IF s.reader = <<>> THEN [s EXCEPT !.state = "scnEOF"]
    ELSE IF ~Head(s.reader).nl
         THEN [s EXCEPT !.state = "scnEOF", !.reader = Tail(s.reader)]
    ELSE [s EXCEPT !.state = "scnNewLine",
                   !.reader = Tail(s.reader),
                   !.buffer = TrimRight(Head(s.reader).text),
                   !.line = s.line + 1,
                   !.column = 0]

\* scanner.consume (callers never ask for more than the buffer holds)
consume(s, runes) ==
    [s EXCEPT !.lastTokenLine = s.line,
              !.lastTokenColumn = s.column,
              !.lastTokenSize = runes,
              !.buffer = Drop(s.buffer, runes),
              !.column = s.column + runes]

\* the result of a scan function: the scanner after it, the token (NoTok
\* for nil) and the panic message ("" when it returned normally)
Ret(s, tok) == [s |-> s, tok |-> tok, panic |-> ""]

Panic(s, msg) == [s |-> s, tok |-> NoTok, panic |-> msg]

\* value.FindString(s.buffer) for value = regexp.QuoteMeta(entry): the
\* expression is not anchored, so it matches when the entry's text occurs
\* anywhere in the buffer
IndentMatches(entry, buffer) == Contains(buffer, entry)

\* the first loop of scanIndent: walks the stack from the front, consuming
\* len(match) runes for every entry that matches; head is the index of the
\* first entry that did not match (0 for nil: all matched)
RECURSIVE walkIndents(_, _)
walkIndents(s, i) ==
    IF i > Len(s.indents) THEN [s |-> s, head |-> 0]
    ELSE IF IndentMatches(s.indents[i], s.buffer)
         THEN walkIndents(consume(s, Len(s.indents[i])), i + 1)
         ELSE [s |-> s, head |-> i]

\* a second loop that removes as many entries, but from the front
popIndents_FromFront(s, head) ==
    LET n == Len(s.indents) - head + 1
    IN  [s EXCEPT !.indents = Drop(s.indents, n),
                  !.stash = s.stash \o [i \in 1..(n - 1) |-> tokOutdentTok]]

\* the second loop of scanIndent: removes the entries from head to the back,
\* stashes one Outdent for each but the last, returns the last
popIndents(s, head) ==
    LET n == Len(s.indents) - head + 1
    IN  [s EXCEPT !.indents = Take(s.indents, head - 1),
                  !.stash = s.stash \o [i \in 1..(n - 1) |-> tokOutdentTok]]

\* \s* at the front of r, skipped
SkipSpace(r) == Drop(r, LeadLen(r, Space))

scanIndent(s) ==
    LET Decide(s1, head, newIndent) ==
            IF Len(newIndent) # 0 /\ head = 0
            THEN Ret(consume([s1 EXCEPT !.indents = Append(s1.indents, newIndent)],
                             Len(newIndent)),
                     Tok("tokIndent", newIndent, NoData))
            ELSE IF Len(newIndent) = 0 /\ head # 0
            THEN Ret(popIndents(s1, head), tokOutdentTok)
            ELSE IF Len(newIndent) # 0 /\ head # 0
            THEN Panic(s1, "Mismatching indentation. Please use a coherent indent schema.")
            ELSE Ret(s1, NoTok)
        Walked(w) == Decide(w.s, w.head, Take(w.s.buffer, LeadLen(w.s.buffer, Space)))
    IN  IF Len(s.buffer) = 0 THEN Ret(s, Tok("tokBlank", <<>>, NoData))
        ELSE Walked(walkIndents(s, 1))

\* rdoctype = ^(!!!|doctype)\s*(.*)
scanDoctype(s) ==
    LET Value(m2) ==
            Ret(consume(s, Len(s.buffer)),
                Tok("tokDoctype", IF Len(m2) = 0 THEN kwHtml ELSE m2, NoData))
        Keyword(k) ==
            IF k = 0 THEN Ret(s, NoTok) ELSE Value(SkipSpace(Drop(s.buffer, k)))
    IN  Keyword(IF HasPrefix(s.buffer, kwBang) THEN Len(kwBang)
                ELSE IF HasPrefix(s.buffer, kwDoctype) THEN Len(kwDoctype) ELSE 0)

\* what \s*(.+)$ captures in its group on rest, or <<>> when it cannot match
\* (the greedy \s* gives one character back when rest is all whitespace)
SkipSpaceSome(rest) ==
    LET Skipped(ws) ==
            IF Len(rest) = 0 THEN <<>>
            ELSE IF ws = Len(rest) THEN Drop(rest, ws - 1)
            ELSE Drop(rest, ws)
    IN  Skipped(LeadLen(rest, Space))

\* rif = ^if\s*(.+)$, relsif = ^elsif\s*(.+)$, relse = ^else\s*
scanCondition(s) ==
    LET b == s.buffer
    IN  IF HasPrefix(b, kwIf) /\ Len(b) > Len(kwIf)
        THEN Ret(consume(s, Len(b)),
                 Tok("tokIf", SkipSpaceSome(Drop(b, Len(kwIf))), NoData))
        ELSE IF HasPrefix(b, kwElsif) /\ Len(b) > Len(kwElsif)
        THEN Ret(consume(s, Len(b)),
                 Tok("tokElseIf", SkipSpaceSome(Drop(b, Len(kwElsif))), NoData))
        ELSE IF HasPrefix(b, kwElse)
        THEN Ret(consume(s, Len(kwElse) + LeadLen(Drop(b, Len(kwElse)), Space)),
                 Tok("tokElse", <<>>, NoData))
        ELSE Ret(s, NoTok)

\* \$[\w0-9\-_]* at the front of b: its length, 0 when b has no $ there
VarLen(b) ==
    IF Len(b) > 0 /\ b[1] = "$"
    THEN 1 + LeadLen(Drop(b, 1), WordChars \cup {"-"}) ELSE 0

\* reach = ^each\s+(\$[\w0-9\-_]*)(?:\s*,\s*(\$[\w0-9\-_]*))?\s+in\s+(.+)$ ;
\* the two variables are stored under the Data keys "X" and "Y"
scanEach(s) ==
    LET b == s.buffer
        none == Ret(s, NoTok)
        \* x, y: the two variables; r5: the text after "in"
        Expression(x, y, r5) ==
            IF LeadLen(r5, Space) >= 1 /\ Len(r5) >= 2
            THEN Ret(consume(s, Len(b)),
                     Tok("tokEach", SkipSpaceSome(r5), [X |-> x, Y |-> y]))
            ELSE none
        \* r3: the text after the variables
        In(x, y, r3) ==
            IF LeadLen(r3, Space) >= 1 /\ HasPrefix(SkipSpace(r3), kwIn)
            THEN Expression(x, y, Drop(SkipSpace(r3), Len(kwIn)))
            ELSE none
        \* r2: the text after the first variable; c: r2 after whitespace;
        \* cy: the text after a comma and whitespace
        Second(x, r2, c, cy) ==
            IF Len(c) > 0 /\ c[1] = "," /\ VarLen(cy) > 0
            THEN In(x, Take(cy, VarLen(cy)), Drop(cy, VarLen(cy)))
            ELSE In(x, <<>>, r2)
        Comma(x, r2, c) == Second(x, r2, c, SkipSpace(Drop(c, 1)))
        \* r1: the text from the first variable on, v1: the variable's length
        First(r1, v1) ==
            IF v1 >= 1
            THEN Comma(Take(r1, v1), Drop(r1, v1), SkipSpace(Drop(r1, v1)))
            ELSE none
        Keyword(r0) ==
            IF HasPrefix(b, kwEach) /\ LeadLen(r0, Space) >= 1
            THEN First(SkipSpace(r0), VarLen(SkipSpace(r0)))
            ELSE none
    IN  Keyword(Drop(b, Len(kwEach)))

\* ^kw\s+([0-9a-zA-Z_\-\. \/]*)$ : the captured path, or "nomatch"
KeywordPath(b, kw) ==
    LET Path(ws, path) ==
            IF HasPrefix(b, kw) /\ ws >= 1 /\ AllIn(path, PathChars)
            THEN [ok |-> TRUE, path |-> path]
            ELSE [ok |-> FALSE, path |-> <<>>]
        Rest(rest) == Path(LeadLen(rest, Space), SkipSpace(rest))
    IN  Rest(Drop(b, Len(kw)))

\* a token whose value is the path a keyword line names
scanKeywordPath(s, kw, kind) ==
    LET Matched(m) ==
            IF m.ok THEN Ret(consume(s, Len(s.buffer)), Tok(kind, m.path, NoData))
            ELSE Ret(s, NoTok)
    IN  Matched(KeywordPath(s.buffer, kw))

\* rimport = ^import\s+([0-9a-zA-Z_\-\. \/]*)$
scanImport(s) == scanKeywordPath(s, kwImport, "tokImport")

\* rextend = ^extend\s+([0-9a-zA-Z_\-\. \/]*)$
scanExtend(s) == scanKeywordPath(s, kwExtend, "tokExtend")

\* rblock = ^block\s+(?:(append|prepend)\s+)?([0-9a-zA-Z_\-\. \/]*)$
scanBlock(s) ==
    LET Name(path, kw, after) ==
            IF Len(kw) > 0 /\ LeadLen(after, Space) >= 1
            THEN Ret(consume(s, Len(s.buffer)),
                     Tok("tokNamedBlock", SkipSpace(after), [Modifier |-> kw]))
            ELSE Ret(consume(s, Len(s.buffer)),
                     Tok("tokNamedBlock", path, [Modifier |-> <<>>]))
        Modifier(path, kw) == Name(path, kw, Drop(path, Len(kw)))
        Matched(m) ==
            IF ~m.ok THEN Ret(s, NoTok)
            ELSE Modifier(m.path,
                          IF HasPrefix(m.path, kwAppend) THEN kwAppend
                          ELSE IF HasPrefix(m.path, kwPrepend) THEN kwPrepend
                          ELSE <<>>)
    IN  Matched(KeywordPath(s.buffer, kwBlock))

\* rassignment = ^(\$[\w0-9\-_]*)?\s*=\s*(.+)$ ; the variable is stored
\* under the Data key "X"
scanAssignment(s) ==
    LET b == s.buffer
        Equals(vl, r2) ==
            IF Len(r2) > 0 /\ r2[1] = "=" /\ Len(r2) > 1
            THEN Ret(consume(s, Len(b)),
                     Tok("tokAssignment", SkipSpaceSome(Drop(r2, 1)),
                         [X |-> Take(b, vl)]))
            ELSE Ret(s, NoTok)
        Variable(vl) == Equals(vl, SkipSpace(Drop(b, vl)))
    IN  Variable(VarLen(b))

\* rtag = ^(\w[-:\w]*)
scanTag(s) ==
    LET b == s.buffer
        Name(n) ==
            IF n = 0 THEN Ret(s, NoTok)
            ELSE Ret(consume(s, n), Tok("tokTag", Take(b, n), NoData))
    IN  Name(IF Len(b) > 0 /\ b[1] \in WordChars
             THEN 1 + LeadLen(Drop(b, 1), WordChars \cup {"-", ":"}) ELSE 0)

\* ^<sigil>([\w-]+)(?:\s*\?\s*(.*)$)? of rid (sigil #) and rclass (sigil .)
scanShorthand(s, sigil, kind) ==
    LET b == s.buffer
        \* q: the text after the name and whitespace
        Guard(n, q) ==
            IF n = 0 THEN Ret(s, NoTok)
            ELSE IF Len(q) > 0 /\ q[1] = "?"
            THEN Ret(consume(s, Len(b)),
                     Tok(kind, SubSeq(b, 2, 1 + n),
                         [Condition |-> SkipSpace(Drop(q, 1))]))
            ELSE Ret(consume(s, 1 + n),
                     Tok(kind, SubSeq(b, 2, 1 + n), [Condition |-> <<>>]))
        Name(n) == Guard(n, SkipSpace(Drop(b, 1 + n)))
    IN  Name(IF Len(b) > 0 /\ b[1] = sigil
             THEN LeadLen(Drop(b, 1), WordChars \cup {"-"}) ELSE 0)

\* rid = ^#([\w-]+)(?:\s*\?\s*(.*)$)?
scanId(s) == scanShorthand(s, "#", "tokId")

\* rclass = ^\.([\w-]+)(?:\s*\?\s*(.*)$)?
scanClass(s) == scanShorthand(s, ".", "tokClass")

\* what rattribute matches at the front of b:
\* ^\[([\w\-]+)\s*(?:=\s*(\"([^\"\\]*)\"|([^\]]+)))?\](?:\s*\?\s*(.*)$)?
\* ok, the name (group 1), the whole value (group 2), the quoted content
\* (group 3), the unquoted value (group 4) and the text after the bracket
AttributeMatch(b) ==
    LET none == [ok |-> FALSE, name |-> <<>>, m2 |-> <<>>, m3 |-> <<>>,
                 m4 |-> <<>>, rest |-> <<>>]
        \* u: the text from the unquoted value on, ku: the value's length
        Unquoted(name, u, ku) ==
            IF ku >= 1 /\ Len(u) > ku
            THEN [ok |-> TRUE, name |-> name, m2 |-> Take(u, ku), m3 |-> <<>>,
                  m4 |-> Take(u, ku), rest |-> Drop(u, ku + 1)]
            ELSE none
        UnquotedAt(name, u) == Unquoted(name, u, LeadLenNot(u, {"]"}))
        \* r3: the text after "=", w3: the whitespace it starts with, r4: r3
        \* after that whitespace, q: the length of the quoted content.  The
        \* unquoted value starts at r4, or one whitespace earlier when r4
        \* starts with the closing bracket
        Quoted(name, r3, w3, r4, q) ==
            IF /\ Len(r4) >= q + 3
               /\ r4[1] = "\""
               /\ r4[q + 2] = "\""
               /\ r4[q + 3] = "]"
            THEN [ok |-> TRUE, name |-> name, m2 |-> Take(r4, q + 2),
                  m3 |-> SubSeq(r4, 2, q + 1), m4 |-> <<>>, rest |-> Drop(r4, q + 3)]
            ELSE UnquotedAt(name, IF LeadLenNot(r4, {"]"}) = 0 /\ w3 >= 1
                                   THEN Drop(r3, w3 - 1) ELSE r4)
        Value(name, r3, w3, r4) ==
            Quoted(name, r3, w3, r4, LeadLenNot(Drop(r4, 1), {"\"", "\\"}))
        AfterEquals(name, r3, w3) == Value(name, r3, w3, Drop(r3, w3))
        \* n: the length of the name, r2: the text after it and whitespace
        AfterName(n, r2) ==
            IF n = 0 \/ Len(r2) = 0 THEN none
            ELSE IF r2[1] = "]"
            THEN [ok |-> TRUE, name |-> SubSeq(b, 2, 1 + n), m2 |-> <<>>,
                  m3 |-> <<>>, m4 |-> <<>>, rest |-> Drop(r2, 1)]
            ELSE IF r2[1] # "=" THEN none
            ELSE AfterEquals(SubSeq(b, 2, 1 + n), Drop(r2, 1),
                             LeadLen(Drop(r2, 1), Space))
        Named(n) == AfterName(n, SkipSpace(Drop(b, 1 + n)))
    IN  Named(IF Len(b) > 0 /\ b[1] = "["
              THEN LeadLen(Drop(b, 1), WordChars \cup {"-"}) ELSE 0)

\* scanAttribute: a quoted value, or no value at all, is raw; an unquoted
\* value is an expression
scanAttribute(s) ==
    LET \* g: the text after the bracket and whitespace
        Guard(m, g) ==
            IF Len(g) > 0 /\ g[1] = "?"
            THEN [cond |-> SkipSpace(Drop(g, 1)), size |-> Len(s.buffer)]
            ELSE [cond |-> <<>>, size |-> Len(s.buffer) - Len(m.rest)]
        Emit(m, t) ==
            IF ~m.ok THEN Ret(s, NoTok)
            ELSE IF Len(m.m3) # 0 \/ m.m2 = <<>>
            THEN Ret(consume(s, t.size),
                     Tok("tokAttribute", m.name,
                         [Content |-> m.m3, Mode |-> "raw", Condition |-> t.cond]))
            ELSE Ret(consume(s, t.size),
                     Tok("tokAttribute", m.name,
                         [Content |-> m.m4, Mode |-> "expression",
                          Condition |-> t.cond]))
        Matched(m) == Emit(m, Guard(m, SkipSpace(m.rest)))
    IN  Matched(AttributeMatch(s.buffer))

\* rcomment = ^\/\/(-)?\s*(.*)$
scanComment(s) ==
    LET b == s.buffer
        silent == Len(b) > 2 /\ b[3] = "-"
    IN  IF HasPrefix(b, <<"/", "/">>)
        THEN Ret(consume(s, Len(b)),
                 Tok("tokComment",
                     SkipSpace(IF silent THEN Drop(b, 3) ELSE Drop(b, 2)),
                     [Mode |-> IF silent THEN "silent" ELSE "embed"]))
        ELSE Ret(s, NoTok)

\* rtext = ^(\|)? ?(.*)$ : always matches
scanText(s) ==
    LET b == s.buffer
        piped == Len(b) > 0 /\ b[1] = "|"
        Value(r1) == IF Len(r1) > 0 /\ r1[1] = " " THEN Drop(r1, 1) ELSE r1
    IN  Ret(consume(s, Len(b)),
            Tok("tokText", Value(IF piped THEN Drop(b, 1) ELSE b),
                [Mode |-> IF piped THEN "piped" ELSE "inline"]))

\* a scan function's token when it matched, otherwise what the next gives
OrElse(r, next) == IF r.tok # NoTok THEN r ELSE next

\* case scnLine of Next: the scan functions in their fixed order, first
\* match wins
scanLine(s) ==
    OrElse(scanDoctype(s),
    OrElse(scanCondition(s),
    OrElse(scanEach(s),
    OrElse(scanImport(s),
    OrElse(scanExtend(s),
    OrElse(scanBlock(s),
    OrElse(scanAssignment(s),
    OrElse(scanTag(s),
    OrElse(scanId(s),
    OrElse(scanClass(s),
    OrElse(scanAttribute(s),
    OrElse(scanComment(s),
           scanText(s)))))))))))))

RawText(result) == Tok("tokText", result, [Mode |-> "raw"])

\* the loop of scanner.scanRaw, one iteration per call
RECURSIVE scanRawLoop(_, _, _)
scanRawLoop(s0, result, level) ==
    LET Indented(r, lvl) ==
            IF r.panic # "" THEN r
            ELSE IF r.tok = NoTok THEN scanRawLoop(r.s, result, level)
            ELSE IF r.tok.Kind = "tokBlank"
            THEN scanRawLoop(r.s, result \o <<"\n">>, level)
            ELSE IF lvl < 0
            THEN Ret([r.s EXCEPT !.stash = Append(r.s.stash, tokOutdentTok)],
                     RawText(IF Len(result) > 0 /\ result[Len(result)] = "\n"
                             THEN Take(result, Len(result) - 1)
                             ELSE result))
            ELSE scanRawLoop(r.s, result, lvl)
        NewLine(r) ==
            Indented(r, IF r.tok = NoTok THEN level
                        ELSE IF r.tok.Kind = "tokIndent" THEN level + 1
                        ELSE IF r.tok.Kind = "tokOutdent" THEN level - 1
                        ELSE level)
        Read(s) ==
            IF s.state = "scnEOF" THEN Ret(s, RawText(result))
            ELSE IF s.state = "scnNewLine"
            THEN NewLine(scanIndent([s EXCEPT !.state = "scnLine"]))
            ELSE scanRawLoop(consume(s, Len(s.buffer)),
                             (IF Len(result) > 0 THEN result \o <<"\n">> ELSE result)
                                 \o Repeat("\t", level) \o s.buffer,
                             level)
    IN  Read(readline(s0))

scanRaw(s) == scanRawLoop(s, <<>>, 0)

\* state == scnEOF answered with the end-of-input token at once, the open
\* indentation levels left on the stack
nextAtEOF_EOFFirst(s) == Ret(s, Tok("tokEOF", <<>>, NoData))

\* case scnEOF of Next: one Outdent per entry still on the stack, taken from
\* the back, then the end-of-input token
nextAtEOF(s) ==
    IF s.indents # <<>>
    THEN Ret([s EXCEPT !.indents = Take(s.indents, Len(s.indents) - 1)],
             tokOutdentTok)
    ELSE Ret(s, Tok("tokEOF", <<>>, NoData))

\* scanner.Next
RECURSIVE Next(_)
Next(s0) ==
    LET Indented(r) == IF r.panic # "" \/ r.tok # NoTok THEN r ELSE Next(r.s)
        Read(s) ==
            IF s.stash # <<>>
            THEN Ret([s EXCEPT !.stash = Tail(s.stash)], Head(s.stash))
            ELSE IF s.state = "scnEOF" THEN nextAtEOF(s)
            ELSE IF s.state = "scnNewLine"
            THEN Indented(scanIndent([s EXCEPT !.state = "scnLine"]))
            ELSE scanLine(s)
    IN  IF s0.readRaw THEN scanRaw([s0 EXCEPT !.readRaw = FALSE])
        ELSE Read(readline(s0))

-----------------------------------------------------------------------------
(* Nodes (parser/nodes.go).  Source positions are not modelled.            *)

\* a nil Noder, a nil *Block
NoNode == [kind |-> "nil"]

newBlock == [kind |-> "Block", Children |-> <<>>]

\* parseDoctype calls newDoctype with the value only: the format stays empty
newDoctype(value) == [kind |-> "Doctype", Value |-> value, Format |-> ""]

newComment(value) ==
    [kind |-> "Comment", Value |-> value, Block |-> NoNode, Silent |-> FALSE]

newText(value, raw) == [kind |-> "Text", Value |-> value, IsRaw |-> raw]

\* the composite literals of parseBlock and parseTag give, after the
\* position: the name, the value, whether the value is raw, the condition
Attribute(name, value, isRaw, condition) ==
    [Name |-> name, Value |-> value, IsRaw |-> isRaw, Condition |-> condition]

newTag(name) ==
    [kind |-> "Tag", Name |-> name, Block |-> NoNode, Attributes |-> <<>>]

newAssignment(variable, expression) ==
    [kind |-> "Assignment", Variable |-> variable, Expression |-> expression]

newCondition(expression) ==
    [kind |-> "Condition", Positive |-> NoNode, Negative |-> NoNode,
     Expression |-> expression]

newRange(key, value, expression) ==
    [kind |-> "Range", Key |-> key, Value |-> value, Expression |-> expression,
     Block |-> NoNode]

\* a NamedBlock object; the objects live in the heap, a sequence, and are
\* referred to by their index
newNamedBlock(name) ==
    [Name |-> name, Modifier |-> "NamedBlockDefault", Children |-> <<>>]

\* &block.Block: a *Block that points into NamedBlock object id of the heap
BlockRef(id) == [kind |-> "BlockRef", id |-> id]

\* Block.push (also on the Block embedded in a NamedBlock)
push(block, node) == [block EXCEPT !.Children = Append(@, node)]

\* Block.unshift
unshift(block, node) == [block EXCEPT !.Children = <<node>> \o @]

_AUTOCLOSES ==
    {<<"b", "a", "s", "e">>, <<"b", "a", "s", "e", "f", "o", "n", "t">>,
     <<"b", "g", "s", "o", "u", "n", "d">>, <<"l", "i", "n", "k">>,
     <<"m", "e", "t", "a">>, <<"a", "r", "e", "a">>, <<"b", "r">>,
     <<"e", "m", "b", "e", "d">>, <<"i", "m", "g">>,
     <<"k", "e", "y", "g", "e", "n">>, <<"w", "b", "r">>,
     <<"i", "n", "p", "u", "t">>, <<"m", "e", "n", "u", "i", "t", "e", "m">>,
     <<"p", "a", "r", "a", "m">>, <<"s", "o", "u", "r", "c", "e">>,
     <<"t", "r", "a", "c", "k">>, <<"h", "r">>, <<"c", "o", "l">>,
     <<"f", "r", "a", "m", "e">>}

\* Tag.IsAutoclose
IsAutoclose(tag) == tag.Name \in _AUTOCLOSES

\* Tag.IsRawText (IsRawHtml is never set)
IsRawText(tag) == tag.Name = kwStyle \/ tag.Name = kwScript

\* Block.CanInline: no child, or every child a Text that is not raw
CanInline(block) ==
    \A i \in 1..Len(block.Children) :
        block.Children[i].kind = "Text" /\ ~block.Children[i].IsRaw

-----------------------------------------------------------------------------
(* The parser (parser/parser.go).                                          *)
(* The parse functions work on st = [p, heap, panic]: the Parser struct,   *)
(* the NamedBlock objects allocated so far, and the panic in flight, if    *)
(* any.  A function that finds a panic in flight does nothing.             *)

NoPanic == [kind |-> "none"]

\* panic(msg) raised in a parse function; args are the values formatted
\* into the message
Raised(msg, args) == [kind |-> "panic", msg |-> msg, args |-> args]

\* what the deferred function of Parse() re-panics with: the message of r
\* wrapped with the file name and the position of the last token
SlimError(filename, r, pos) ==
    [kind |-> "SlimError", Filename |-> filename, cause |-> r,
     Line |-> pos.Line, Column |-> pos.Column, TokenLength |-> pos.TokenLength]

Failed(st) == st.panic # NoPanic

raise(st, msg, args) == [st EXCEPT !.panic = Raised(msg, args)]

\* a nil *Parser
NoParser == [kind |-> "nil"]

newParser(input) ==
    [scanner |-> newScanner(input), parent |-> NoParser, token |-> NoTok,
     result |-> NoNode, filename |-> <<>>, filepath |-> <<>>,
     fileextension |-> <<".", "h", "t", "m", "l", ".", "s", "l", "i", "m">>,
     namedBlocks |-> <<>>]

\* scanner.Pos
Pos(s) ==
    [Line |-> s.lastTokenLine + 1, Column |-> s.lastTokenColumn + 1,
     TokenLength |-> s.lastTokenSize]

\* tok.Data[key] for the keys whose values are text: the empty string when
\* the map is nil or has no such key
DataGet(tok, key) ==
    IF key \in DOMAIN tok.Data THEN tok.Data[key] ELSE <<>>

\* tok.Data["Mode"]
DataMode(tok) == IF "Mode" \in DOMAIN tok.Data THEN tok.Data.Mode ELSE ""

\* p.namedBlocks[name]: the object's index, 0 for nil
LookupBlock(p, name) ==
    IF name \in DOMAIN p.namedBlocks THEN p.namedBlocks[name] ELSE 0

\* Parser.scanToken
scanToken(st) ==
    LET Scanned(r) ==
            IF r.panic # ""
            THEN [st EXCEPT !.p.scanner = r.s, !.panic = Raised(r.panic, <<>>)]
            ELSE [st EXCEPT !.p.scanner = r.s, !.p.token = r.tok]
    IN  IF Failed(st) THEN st ELSE Scanned(Next(st.p.scanner))

\* Parser.expectToken: the state after it.  The token it returns is the
\* one in hand before the call, st.p.token
expectToken(st, kind) ==
    IF Failed(st) THEN st
    ELSE IF st.p.token.Kind # kind
    THEN raise(st, "Expect token kind %d, but got %d", <<kind, st.p.token.Kind>>)
    ELSE scanToken(st)

\* what a parse function hands back: the state it leaves and the node it
\* returns, none when it panicked
Returns(st, node) == [st |-> st, node |-> IF Failed(st) THEN NoNode ELSE node]

\* Parser.parseDoctype
parseDoctype(st) ==
    Returns(expectToken(st, "tokDoctype"), newDoctype(st.p.token.Value))

\* Parser.parseText
parseText(st) ==
    Returns(expectToken(st, "tokText"),
            newText(st.p.token.Value, DataMode(st.p.token) = "raw"))

\* Parser.parseAssignment: the variable is read from the Data key "Variable"
parseAssignment(st) ==
    Returns(expectToken(st, "tokAssignment"),
            newAssignment(DataGet(st.p.token, "Variable"), st.p.token.Value))

kwId == <<"i", "d">>
kwClass == <<"c", "l", "a", "s", "s">>

Upper == <<"A", "B", "C", "D", "E", "F", "G", "H", "I", "J", "K", "L", "M",
           "N", "O", "P", "Q", "R", "S", "T", "U", "V", "W", "X", "Y", "Z">>

Lower == <<"a", "b", "c", "d", "e", "f", "g", "h", "i", "j", "k", "l", "m",
           "n", "o", "p", "q", "r", "s", "t", "u", "v", "w", "x", "y", "z">>

\* strings.ToLower
ToLower(s) ==
    [i \in 1..Len(s) |->
        IF \E j \in 1..Len(Upper) : Upper[j] = s[i]
        THEN Lower[CHOOSE j \in 1..Len(Upper) : Upper[j] = s[i]]
        ELSE s[i]]

\* strings.HasSuffix
HasSuffix(s, suffix) ==
    Len(suffix) <= Len(s) /\ SubSeq(s, Len(s) - Len(suffix) + 1, Len(s)) = suffix

\* filepath.Join of a directory and a name (for names that filepath.Clean
\* leaves as they are: no ".", ".." or doubled separator)
Join(dir, name) == IF name = <<>> THEN dir ELSE dir \o <<"/">> \o name

\* NewFileParser: ioutil.ReadFile of the file system, then newParser; only
\* the filename is set
NewFileParser(filename) ==
    IF filename \in DOMAIN files
    THEN [ok |-> TRUE, parser |-> [newParser(files[filename]) EXCEPT !.filename = filename]]
    ELSE [ok |-> FALSE, parser |-> NoParser]

\* Parser.newFileParser
newFileParser(st, filename) ==
    LET Made(full, made) ==
            IF ~made.ok
            THEN [st |-> raise(st, "Failed to import/extend %s with error %s", <<full>>),
                  parser |-> NoParser]
            ELSE [st |-> st, parser |-> made.parser]
        Named(full) == Made(full, NewFileParser(full))
        Joined(joined) ==
            Named(IF HasSuffix(ToLower(joined), st.p.fileextension)
                  THEN joined ELSE joined \o st.p.fileextension)
    IN  IF Failed(st) THEN [st |-> st, parser |-> NoParser]
        ELSE IF Len(st.p.filepath) = 0
        THEN [st |-> raise(st, "Unable to import/extend %s with empty filepath.",
                           <<filename>>),
              parser |-> NoParser]
        ELSE Joined(Join(st.p.filepath, filename))

\* case NamedBlockAppend of Parse: push ours' children from the first one on
RECURSIVE pushEach(_, _, _)
pushEach(prev, ours, i) ==
    IF i > Len(ours.Children) THEN prev
    ELSE pushEach(push(prev, ours.Children[i]), ours, i + 1)

\* case NamedBlockPrepend of Parse: unshift ours' children from the last one
\* down
RECURSIVE unshiftEach(_, _, _)
unshiftEach(prev, ours, i) ==
    IF i < 1 THEN prev
    ELSE unshiftEach(unshift(prev, ours.Children[i]), ours, i - 1)

\* the switch on ours.Modifier with the Append case inserting before the
\* parent's children
applyOverride_AppendBefore(prev, ours) ==
    IF ours.Modifier = "NamedBlockAppend" THEN unshiftEach(prev, ours, Len(ours.Children))
    ELSE IF ours.Modifier = "NamedBlockPrepend"
    THEN unshiftEach(prev, ours, Len(ours.Children))
    ELSE [prev EXCEPT !.Children = ours.Children]

\* the switch on ours.Modifier with the Prepend case replacing the parent's
\* children
applyOverride_PrependReplaces(prev, ours) ==
    IF ours.Modifier = "NamedBlockAppend" THEN pushEach(prev, ours, 1)
    ELSE [prev EXCEPT !.Children = ours.Children]

\* the switch on ours.Modifier in Parse: what the parent's block prev becomes
applyOverride(prev, ours) ==
    IF ours.Modifier = "NamedBlockAppend" THEN pushEach(prev, ours, 1)
    ELSE IF ours.Modifier = "NamedBlockPrepend"
    THEN unshiftEach(prev, ours, Len(ours.Children))
    ELSE [prev EXCEPT !.Children = ours.Children]

\* a loop that empties the parent's blocks this parser registered no block
\* for
resolveBlocks_EmptiesOthers(p, heap) ==
    [i \in 1..Len(heap) |->
        IF \E n \in DOMAIN p.parent.namedBlocks : p.parent.namedBlocks[n] = i
        THEN IF LookupBlock(p, heap[i].Name) # 0
             THEN applyOverride(heap[i], heap[LookupBlock(p, heap[i].Name)])
             ELSE [heap[i] EXCEPT !.Children = <<>>]
        ELSE heap[i]]

\* the loop over p.parent.namedBlocks in Parse: every block the parent
\* recorded and this parser registered under the same name is overridden
\* (the iterations change different objects, so their order does not matter)
resolveBlocks(p, heap) ==
    [i \in 1..Len(heap) |->
        IF /\ \E n \in DOMAIN p.parent.namedBlocks : p.parent.namedBlocks[n] = i
           /\ LookupBlock(p, heap[i].Name) # 0
        THEN applyOverride(heap[i], heap[LookupBlock(p, heap[i].Name)])
        ELSE heap[i]]

\* the parent's result with the nodes of this parser's own block added
inherited_WithOwn(p, block) ==
    [p.parent.result EXCEPT !.Children = @ \o block.Children]

\* block = p.parent.result of Parse: the block of the parser's own nodes is
\* given up for the parent's result
inherited(p, block) == p.parent.result

\* a deferred function that wraps whatever panic it recovers
recovered_Rewrap(st) == SlimError(st.p.filename, st.panic, Pos(st.p.scanner))

\* the deferred function of Parse: a panic that is already a Slim Error is
\* passed on, any other is wrapped with this parser's file and position
recovered(st) ==
    IF st.panic.kind = "SlimError" THEN st.panic
    ELSE SlimError(st.p.filename, st.panic, Pos(st.p.scanner))

RECURSIVE parseToken(_), parseBlock(_, _), parseBlockLoop(_, _, _, _),
          parseBlockChild(_, _, _, _), parseComment(_), parseCommentBlock(_, _),
          parseTag(_), parseTagMore(_, _), parseTagAttribute(_, _, _, _),
          parseTagText(_, _), parseCondition(_), parseConditionMore(_, _),
          parseConditionPositive(_, _), parseConditionNegative(_, _),
          parseConditionNested(_, _), parseConditionElseIf(_, _),
          parseConditionElse(_, _), parseEach(_), parseEachBlock(_, _),
          parseNamedBlock(_), parseNamedBlockBody(_, _, _), parseImport(_),
          parseImportFile(_), parseExtend(_), parseExtendFile(_),
          parseLoop(_, _), parseLoopToken(_, _), parseLoopPush(_, _), Parse(_, _)

\* Parser.parseToken
parseToken(st) ==
    LET k == st.p.token.Kind
        Block(b) == [st |-> b.st, node |-> b.node]
    IN  IF Failed(st) THEN [st |-> st, node |-> NoNode]
        ELSE IF k = "tokIndent" THEN Block(parseBlock(st, FALSE))
        ELSE IF k = "tokDoctype" THEN parseDoctype(st)
        ELSE IF k = "tokComment" THEN parseComment(st)
        ELSE IF k = "tokTag" THEN parseTag(st)
        ELSE IF k = "tokText" THEN parseText(st)
        ELSE IF k = "tokAssignment" THEN parseAssignment(st)
        ELSE IF k = "tokIf" THEN parseCondition(st)
        ELSE IF k = "tokEach" THEN parseEach(st)
        ELSE IF k = "tokNamedBlock" THEN parseNamedBlock(st)
        ELSE IF k = "tokImport" THEN parseImport(st)
        ELSE IF k = "tokExtend" THEN parseExtend(st)
        ELSE [st |-> raise(st, "Unexpected token: %d", <<k>>), node |-> NoNode]

\* the Attribute parseBlock appends to the tag for the token attr: cond is
\* attr.Data["Condition"], and the switch on attr.Kind
attributeOf(attr) ==
    LET cond == DataGet(attr, "Condition")
    IN  IF attr.Kind = "tokId" THEN Attribute(kwId, attr.Value, TRUE, cond)
        ELSE IF attr.Kind = "tokClass" THEN Attribute(kwClass, attr.Value, TRUE, cond)
        ELSE Attribute(attr.Value, DataGet(attr, "Content"), DataMode(attr) = "raw", cond)

\* Parser.parseBlock; parentIsTag: the parent argument is a *Tag.  attrs are
\* the attributes the block appended to that tag
parseBlock(st, parentIsTag) ==
    parseBlockLoop(expectToken(st, "tokIndent"), parentIsTag, newBlock, <<>>)

\* the loop of parseBlock and its closing expectToken(tokOutdent)
parseBlockLoop(st, parentIsTag, block, attrs) ==
    LET k == st.p.token.Kind
        attr == st.p.token
        Closed(out) ==
            [st |-> out, node |-> IF Failed(out) THEN NoNode ELSE block,
             attrs |-> attrs]
    IN  IF Failed(st) THEN [st |-> st, node |-> NoNode, attrs |-> attrs]
        ELSE IF k \in {"nil", "tokEOF", "tokOutdent"}
        THEN Closed(expectToken(st, "tokOutdent"))
        ELSE IF k = "tokBlank"
        THEN parseBlockLoop(scanToken(st), parentIsTag, block, attrs)
        ELSE IF k \in {"tokId", "tokClass", "tokAttribute"}
        THEN IF ~parentIsTag
             THEN [st |-> raise(st, "Conditional attributes must be placed immediately within a parent tag.", <<>>),
                   node |-> NoNode, attrs |-> attrs]
             ELSE parseBlockLoop(expectToken(st, k), parentIsTag, block,
                                 Append(attrs, attributeOf(attr)))
        ELSE parseBlockChild(parseToken(st), parentIsTag, block, attrs)

\* block.push(p.parseToken()) of parseBlock, and the rest of the loop; r is
\* what parseToken handed back
parseBlockChild(r, parentIsTag, block, attrs) ==
    IF Failed(r.st) THEN [st |-> r.st, node |-> NoNode, attrs |-> attrs]
    ELSE parseBlockLoop(r.st, parentIsTag, push(block, r.node), attrs)

\* a node whose Block field is set to the block b that parseBlock handed
\* back
WithBlock(node, b) == Returns(b.st, [node EXCEPT !.Block = b.node])

\* Parser.parseComment
parseComment(st) ==
    parseCommentBlock(expectToken(st, "tokComment"),
                      [newComment(st.p.token.Value) EXCEPT
                          !.Silent = DataMode(st.p.token) = "silent"])

\* parseComment after the node is made: the block of the comment, if any
parseCommentBlock(st, node) ==
    IF Failed(st) THEN [st |-> st, node |-> NoNode]
    ELSE IF st.p.token.Kind = "tokIndent" THEN WithBlock(node, parseBlock(st, FALSE))
    ELSE [st |-> st, node |-> node]

\* Parser.parseTag
parseTag(st) == parseTagMore(expectToken(st, "tokTag"), newTag(st.p.token.Value))

\* parseTag from the label readmore on
parseTagMore(st, tag) ==
    LET k == st.p.token.Kind
        attr == st.p.token
        \* owned: the tag with the attributes its block appended to it
        Filled(owned, b) ==
            Returns(b.st,
                    IF owned.Block = NoNode THEN [owned EXCEPT !.Block = b.node]
                    ELSE [owned EXCEPT !.Block.Children = @ \o b.node.Children])
        Indented(b) == Filled([tag EXCEPT !.Attributes = @ \o b.attrs], b)
    IN  IF Failed(st) THEN [st |-> st, node |-> NoNode]
        ELSE IF k = "tokIndent"
        THEN Indented(parseBlock(IF IsRawText(tag)
                                 THEN [st EXCEPT !.p.scanner.readRaw = TRUE]
                                 ELSE st,
                                 TRUE))
        ELSE IF k \in {"tokId", "tokClass", "tokAttribute"}
        THEN parseTagAttribute(expectToken(st, k), k, attr, tag)
        ELSE IF k = "tokText" /\ DataMode(st.p.token) # "piped"
        THEN parseTagText(IF tag.Block = NoNode THEN [tag EXCEPT !.Block = newBlock]
                          ELSE tag,
                          parseText(st))
        ELSE [st |-> st, node |-> tag]

\* cases tokId, tokClass and tokAttribute of parseTag, after expectToken
\* returned the token attr of kind k
parseTagAttribute(st, k, attr, tag) ==
    IF Failed(st) THEN [st |-> st, node |-> NoNode]
    ELSE IF Len(DataGet(attr, "Condition")) > 0
    THEN [st |-> raise(st,
                       IF k = "tokId"
                       THEN "Conditional attributes(id) must be placed in a block within a tag."
                       ELSE IF k = "tokClass"
                       THEN "Conditional attributes(class) must be placed in a block within a tag."
                       ELSE "Conditional attributes must be placed in a block within a tag.",
                       <<>>),
          node |-> NoNode]
    ELSE parseTagMore(st,
             [tag EXCEPT !.Attributes =
                 Append(@, IF k = "tokId" THEN Attribute(kwId, attr.Value, TRUE, <<>>)
                           ELSE IF k = "tokClass"
                           THEN Attribute(kwClass, attr.Value, TRUE, <<>>)
                           ELSE Attribute(attr.Value, DataGet(attr, "Content"),
                                          DataMode(attr) = "raw", <<>>))])

\* case tokText of parseTag: tag is the tag after ensureBlock(), t what
\* parseText handed back
parseTagText(tag, t) ==
    IF Failed(t.st) THEN [st |-> t.st, node |-> NoNode]
    ELSE parseTagMore(t.st, [tag EXCEPT !.Block = unshift(@, t.node)])

\* Parser.parseCondition
parseCondition(st) ==
    parseConditionMore(expectToken(st, "tokIf"), newCondition(st.p.token.Value))

\* parseCondition from the label readmore on
parseConditionMore(st, node) ==
    IF Failed(st) THEN [st |-> st, node |-> NoNode]
    ELSE IF st.p.token.Kind = "tokIndent"
    THEN parseConditionPositive(node, parseBlock(st, FALSE))
    ELSE IF st.p.token.Kind = "tokElseIf"
    THEN parseConditionElseIf(expectToken(st, "tokElseIf"), node)
    ELSE IF st.p.token.Kind = "tokElse"
    THEN parseConditionElse(expectToken(st, "tokElse"), node)
    ELSE [st |-> st, node |-> node]

\* case tokIndent of parseCondition: b is what parseBlock handed back
parseConditionPositive(node, b) ==
    parseConditionMore(b.st, [node EXCEPT !.Positive = b.node])

\* node.Negative = p.parseBlock(node) of case tokElse
parseConditionNegative(node, b) ==
    parseConditionMore(b.st, [node EXCEPT !.Negative = b.node])

\* a negative branch that is the nested condition itself, in no block
parseConditionNested_Bare(node, c) ==
    parseConditionMore(c.st, [node EXCEPT !.Negative = c.node])

\* node.Negative = newBlock(); node.Negative.push(p.parseCondition()) of the
\* cases tokElseIf and tokElse: c is what parseCondition handed back
parseConditionNested(node, c) ==
    parseConditionMore(c.st, [node EXCEPT !.Negative = push(newBlock, c.node)])

\* case tokElseIf of parseCondition, after its expectToken
parseConditionElseIf(st, node) ==
    IF Failed(st) THEN [st |-> st, node |-> NoNode]
    ELSE IF st.p.token.Kind # "tokElseIf"
    THEN [st |-> raise(st, "Unexpected token!", <<>>), node |-> NoNode]
    ELSE parseConditionNested(node, parseCondition(st))

\* case tokElse of parseCondition, after its expectToken
parseConditionElse(st, node) ==
    IF Failed(st) THEN [st |-> st, node |-> NoNode]
    ELSE IF st.p.token.Kind = "tokIf"
    THEN parseConditionNested(node, parseCondition(st))
    ELSE IF st.p.token.Kind = "tokIndent"
    THEN parseConditionNegative(node, parseBlock(st, FALSE))
    ELSE [st |-> raise(st, "Unexpected token!", <<>>), node |-> NoNode]

\* Parser.parseEach: the variables are read from the Data keys "Key" and
\* "Value"
parseEach(st) ==
    parseEachBlock(expectToken(st, "tokEach"),
                   newRange(DataGet(st.p.token, "Key"), DataGet(st.p.token, "Value"),
                            st.p.token.Value))

\* parseEach after the node is made: the block of the loop, if any
parseEachBlock(st, node) ==
    IF Failed(st) THEN [st |-> st, node |-> NoNode]
    ELSE IF st.p.token.Kind = "tokIndent" THEN WithBlock(node, parseBlock(st, FALSE))
    ELSE [st |-> st, node |-> node]

\* Parser.parseNamedBlock
parseNamedBlock(st) ==
    parseNamedBlockBody(expectToken(st, "tokNamedBlock"), st.p.token.Value,
                        DataGet(st.p.token, "Modifier"))

\* parseNamedBlock after its expectToken returned the token with the name
\* and the modifier mod: the block is registered after its body is parsed;
\* the Default block is returned as a pointer into the registered object
parseNamedBlockBody(st, name, mod) ==
    LET block == [newNamedBlock(name) EXCEPT
                     !.Modifier = IF mod = kwAppend THEN "NamedBlockAppend"
                                  ELSE IF mod = kwPrepend THEN "NamedBlockPrepend"
                                  ELSE @]
        Registered(b, id) ==
            IF Failed(b.st) THEN [st |-> b.st, node |-> NoNode]
            ELSE [st |-> [b.st EXCEPT
                             !.heap = Append(@, [block EXCEPT !.Children = b.node.Children]),
                             !.p.namedBlocks = (name :> id) @@ @],
                  node |-> IF block.Modifier = "NamedBlockDefault" THEN BlockRef(id)
                           ELSE newBlock]
        Body(b) == Registered(b, Len(b.st.heap) + 1)
    IN  IF Failed(st) THEN [st |-> st, node |-> NoNode]
        ELSE IF LookupBlock(st.p, name) # 0
        THEN [st |-> raise(st, "Multiple definitions of named blocks are not permitted. Block %s has been redefined.",
                           <<name>>),
              node |-> NoNode]
        ELSE IF st.p.token.Kind = "tokIndent" THEN Body(parseBlock(st, FALSE))
        ELSE Body([st |-> st, node |-> newBlock, attrs |-> <<>>])

\* Parser.parseImport
parseImport(st) ==
    parseImportFile(newFileParser(expectToken(st, "tokImport"), st.p.token.Value))

\* p.newFileParser(tok.Value).Parse() of parseImport: the node is the Block
\* the imported file's parser returns; made is what newFileParser handed back
parseImportFile(made) ==
    LET Parsed(r) ==
            IF r.panic # NoPanic
            THEN [st |-> [made.st EXCEPT !.heap = r.heap, !.panic = r.panic],
                  node |-> NoNode]
            ELSE [st |-> [made.st EXCEPT !.heap = r.heap], node |-> r.node]
    IN  IF Failed(made.st) THEN [st |-> made.st, node |-> NoNode]
        ELSE Parsed(Parse(made.parser, made.st.heap))

\* Parser.parseExtend
parseExtend(st) ==
    IF Failed(st) THEN [st |-> st, node |-> NoNode]
    ELSE IF st.p.parent # NoParser
    THEN [st |-> raise(st, "Unable to extend multiple parent templates.", <<>>),
          node |-> NoNode]
    ELSE parseExtendFile(newFileParser(expectToken(st, "tokExtend"), st.p.token.Value))

\* parser.Parse(); p.parent = parser of parseExtend; made is what
\* newFileParser handed back
parseExtendFile(made) ==
    LET Parsed(r) ==
            IF r.panic # NoPanic
            THEN [st |-> [made.st EXCEPT !.heap = r.heap, !.panic = r.panic],
                  node |-> NoNode]
            ELSE [st |-> [made.st EXCEPT !.heap = r.heap, !.p.parent = r.p],
                  node |-> newBlock]
    IN  IF Failed(made.st) THEN [st |-> made.st, node |-> NoNode]
        ELSE Parsed(Parse(made.parser, made.st.heap))

\* the for loop of Parse: every iteration starts by reading a token
parseLoop(st, block) == parseLoopToken(scanToken(st), block)

\* an iteration of the loop of Parse after its scanToken
parseLoopToken(st, block) ==
    IF Failed(st) THEN [st |-> st, block |-> block]
    ELSE IF st.p.token.Kind \in {"nil", "tokEOF"} THEN [st |-> st, block |-> block]
    ELSE IF st.p.token.Kind = "tokBlank" THEN parseLoop(st, block)
    ELSE parseLoopPush(parseToken(st), block)

\* block.push(p.parseToken()) of Parse, and the rest of the loop; r is what
\* parseToken handed back
parseLoopPush(r, block) ==
    IF Failed(r.st) THEN [st |-> r.st, block |-> block]
    ELSE parseLoop(r.st, push(block, r.node))

\* a Parse() that forgets its result
hasResult_Never(p) == FALSE

\* if p.result != nil of Parse: the parser has parsed already
hasResult(p) == p.result # NoNode

\* Parser.Parse on parser p with the objects of heap: the parser and the
\* heap it leaves, the panic it ends with, and the Block it returns
Parse(p, heap) ==
    LET Looped(st, block) ==
            IF Failed(st)
            THEN [p |-> st.p, heap |-> st.heap, panic |-> recovered(st), node |-> NoNode]
            ELSE IF st.p.parent # NoParser
            THEN [p |-> [st.p EXCEPT !.result = inherited(st.p, block)],
                  heap |-> resolveBlocks(st.p, st.heap),
                  panic |-> NoPanic,
                  node |-> inherited(st.p, block)]
            ELSE [p |-> [st.p EXCEPT !.result = block], heap |-> st.heap,
                  panic |-> NoPanic, node |-> block]
        Loop(l) == Looped(l.st, l.block)
    IN  IF hasResult(p)
        THEN [p |-> p, heap |-> heap, panic |-> NoPanic, node |-> p.result]
        ELSE Loop(parseLoop([p |-> p, heap |-> heap, panic |-> NoPanic], newBlock))

\* the tree a node stands for: every pointer into a NamedBlock replaced by
\* the Block it points to
RECURSIVE Deref(_, _)
Deref(node, heap) ==
    IF node.kind = "BlockRef"
    THEN [kind |-> "Block",
          Children |-> [i \in 1..Len(heap[node.id].Children) |->
                           Deref(heap[node.id].Children[i], heap)]]
    ELSE IF node.kind = "Block"
    THEN [node EXCEPT !.Children = [i \in 1..Len(@) |-> Deref(@[i], heap)]]
    ELSE IF node.kind \in {"Tag", "Comment", "Range"}
    THEN [node EXCEPT !.Block = Deref(@, heap)]
    ELSE IF node.kind = "Condition"
    THEN [node EXCEPT !.Positive = Deref(@, heap), !.Negative = Deref(@, heap)]
    ELSE node

-----------------------------------------------------------------------------
(* The generator (Compiler, second half of parser/scanner.go).             *)
(* The visit functions work on c, the Compiler struct: its options, its    *)
(* buffer and counters, the panic in flight if any, and the orders in      *)
(* which its coming map iterations will deliver their keys.                *)

\* Compiler.New, then Options = options and node = the parsed tree; oracle
\* is consumed one number per iteration over an attribute map
New(opts, oracle) ==
    [PrettyPrint |-> opts.PrettyPrint, LineNumbers |-> opts.LineNumbers,
     indentLevel |-> 0, tempvarIndex |-> 0, buffer |-> <<>>,
     oracle |-> oracle, panic |-> NoPanic]

DefaultOptions == [PrettyPrint |-> TRUE, LineNumbers |-> FALSE]

\* Compiler.write
write(c, value) == [c EXCEPT !.buffer = @ \o value]

\* Compiler.indent
indent(c, offset, newline) ==
    IF ~c.PrettyPrint THEN c
    ELSE write(c, (IF newline /\ Len(c.buffer) > 0 THEN <<"\n">> ELSE <<>>)
                      \o Repeat("\t", c.indentLevel + offset))

DigitChars == <<"0", "1", "2", "3", "4", "5", "6", "7", "8", "9">>

\* strconv.Itoa of a natural number
RECURSIVE Itoa(_)
Itoa(n) ==
    IF n < Len(DigitChars) THEN <<DigitChars[n + 1]>>
    ELSE Itoa(n \div Len(DigitChars)) \o <<DigitChars[(n % Len(DigitChars)) + 1]>>

\* tempvar handing out the name of the index it found, without a new index
tempvar_Reused(c) ==
    [c |-> c,
     name |-> <<"$", "_", "_", "s", "l", "i", "m", "_">> \o Itoa(c.tempvarIndex + 1)]

\* Compiler.tempvar: the compiler after it, and the name
tempvar(c) ==
    [c |-> [c EXCEPT !.tempvarIndex = @ + 1],
     name |-> <<"$", "_", "_", "s", "l", "i", "m", "_">> \o Itoa(c.tempvarIndex + 1)]

\* strings.Replace(s, old, new, -1) for a non-empty old
RECURSIVE Replace(_, _, _)
Replace(s, old, new) ==
    IF Len(s) < Len(old) THEN s
    ELSE IF HasPrefix(s, old) THEN new \o Replace(Drop(s, Len(old)), old, new)
    ELSE <<s[1]>> \o Replace(Tail(s), old, new)

\* Compiler.escape
escape(input) == Replace(Replace(input, <<"\\">>, <<"\\", "\\">>), <<"\"">>, <<"\\", "\"">>)

\* the index at which the first occurrence of lit in s at or after from
\* starts, 0 if there is none
IndexFrom(s, lit, from) ==
    IF \E j \in from..(Len(s) - Len(lit) + 1) : SubSeq(s, j, j + Len(lit) - 1) = lit
    THEN CHOOSE j \in from..(Len(s) - Len(lit) + 1) :
             /\ SubSeq(s, j, j + Len(lit) - 1) = lit
             /\ \A i \in from..(j - 1) : SubSeq(s, i, i + Len(lit) - 1) # lit
    ELSE 0

\* open(.*?)close matched at the front of s: the index at which close
\* starts, 0 for no match ("." does not match a newline)
LazyMatch(s, open, close) ==
    LET Closed(j) ==
            IF HasPrefix(s, open) /\ j > 0
               /\ \A i \in (Len(open) + 1)..(j - 1) : s[i] # "\n"
            THEN j ELSE 0
    IN  Closed(IndexFrom(s, close, Len(open) + 1))

\* Doctype.String for the empty format parseDoctype leaves: rxml is
\* ^xml(\s+(.+?))?$ and its encoding is always utf-8; any other value gets
\* the default of the second switch, _DOCTYPES["5"]
DoctypeString(d) ==
    LET v == d.Value
        xml == /\ HasPrefix(v, <<"x", "m", "l">>)
               /\ \/ Len(v) = 3
                  \/ Len(v) >= 5 /\ v[4] \in Space /\ \A i \in 4..Len(v) : v[i] # "\n"
    IN  IF xml THEN <<"<", "?", "x", "m", "l", " ", "v", "e", "r", "s", "i", "o", "n", "=", "\"", "1", ".", "0", "\"", " ", "e", "n", "c", "o", "d", "i", "n", "g", "=", "\"", "u", "t", "f", "-", "8", "\"", " ", "?", ">">>
        ELSE <<"<", "!", "D", "O", "C", "T", "Y", "P", "E", " ", "h", "t", "m", "l", ">">>

builtinFunctions ==
    {<<"l", "e", "n">>, <<"p", "r", "i", "n", "t">>, <<"p", "r", "i", "n", "t", "f">>, <<"p", "r", "i", "n", "t", "l", "n">>, <<"u", "r", "l", "q", "u", "e", "r", "y">>, <<"j", "s">>, <<"j", "s", "o", "n">>,
     <<"i", "n", "d", "e", "x">>, <<"h", "t", "m", "l">>, <<"u", "n", "e", "s", "c", "a", "p", "e", "d">>}

-----------------------------------------------------------------------------
(* Expressions: go/parser.ParseExpr, for the expressions of the model's    *)
(* templates, and Compiler.visitExpression.                                *)

NoExpr == [type |-> "nil"]

Ident(name) == [type |-> "Ident", Name |-> name]

BasicLit(value) == [type |-> "BasicLit", Value |-> value]

GoKeywords ==
    {<<"b", "r", "e", "a", "k">>, <<"c", "a", "s", "e">>, <<"c", "h", "a", "n">>, <<"c", "o", "n", "s", "t">>, <<"c", "o", "n", "t", "i", "n", "u", "e">>, <<"d", "e", "f", "a", "u", "l", "t">>, <<"d", "e", "f", "e", "r">>,
     <<"e", "l", "s", "e">>, <<"f", "a", "l", "l", "t", "h", "r", "o", "u", "g", "h">>, <<"f", "o", "r">>, <<"f", "u", "n", "c">>, <<"g", "o">>, <<"g", "o", "t", "o">>, <<"i", "f">>,
     <<"i", "m", "p", "o", "r", "t">>, <<"i", "n", "t", "e", "r", "f", "a", "c", "e">>, <<"m", "a", "p">>, <<"p", "a", "c", "k", "a", "g", "e">>, <<"r", "a", "n", "g", "e">>, <<"r", "e", "t", "u", "r", "n">>,
     <<"s", "e", "l", "e", "c", "t">>, <<"s", "t", "r", "u", "c", "t">>, <<"s", "w", "i", "t", "c", "h">>, <<"t", "y", "p", "e">>, <<"v", "a", "r">>}

\* s without its leading and trailing white space
TrimSpace(s) == TrimRight(Drop(s, LeadLen(s, Space)))

IsIdentifier(s) ==
    /\ Len(s) > 0
    /\ s[1] \in Letters \cup {"_"}
    /\ AllIn(s, WordChars)
    /\ s \notin GoKeywords

IsIntLit(s) ==
    /\ Len(s) > 0
    /\ AllIn(s, Digits)
    /\ (Len(s) = 1 \/ s[1] # "0")

\* an interpreted string literal without escapes
IsStringLit(s) ==
    /\ Len(s) >= 2
    /\ s[1] = "\""
    /\ s[Len(s)] = "\""
    /\ \A j \in 2..(Len(s) - 1) : s[j] \notin {"\"", "\\"}

\* f(x): an identifier, and between the parentheses after it one operand
IsCall(s) ==
    /\ Len(s) >= 4
    /\ s[Len(s)] = ")"
    /\ LeadLen(s, WordChars) \in 1..(Len(s) - 3)
    /\ s[LeadLen(s, WordChars) + 1] = "("
    /\ IsIdentifier(Take(s, LeadLen(s, WordChars)))

\* go/parser.ParseExpr on an operand: an identifier, a decimal literal, a
\* string literal, or nothing at all (an error); and on the call of a
\* function with one such operand; no other expression occurs in the
\* model's templates
ParseExpr(src) ==
    LET Operand(s) ==
            CASE IsIdentifier(s) -> [ok |-> TRUE, expr |-> Ident(s)]
              [] IsIntLit(s) -> [ok |-> TRUE, expr |-> BasicLit(s)]
              [] IsStringLit(s) -> [ok |-> TRUE, expr |-> BasicLit(s)]
              [] s = <<>> \/ s \in GoKeywords -> [ok |-> FALSE, expr |-> NoExpr]
        Call(fun, arg) ==
            [ok |-> arg.ok,
             expr |-> [type |-> "CallExpr", Fun |-> Ident(fun), Args |-> <<arg.expr>>]]
        Expr(s) ==
            IF IsCall(s)
            THEN Call(Take(s, LeadLen(s, WordChars)),
                      Operand(SubSeq(s, LeadLen(s, WordChars) + 2, Len(s) - 1)))
            ELSE Operand(s)
    IN  Expr(TrimSpace(src))

\* pop taking the reference pushed first instead of the one pushed last
pop_Back(stack) ==
    [val |-> IF stack = <<>> THEN <<>> ELSE stack[Len(stack)],
     stack |-> IF stack = <<>> THEN <<>> ELSE Take(stack, Len(stack) - 1)]

\* pop of visitExpression: the front of the stack, "" when it is empty
pop(stack) ==
    [val |-> IF stack = <<>> THEN <<>> ELSE Head(stack),
     stack |-> IF stack = <<>> THEN <<>> ELSE Tail(stack)]

fail(c, msg) == [c EXCEPT !.panic = Raised(msg, <<>>)]

\* the switch on be.Op: the function written, and whether the result is
\* negated afterwards
BinaryFn(op) ==
    CASE op = "ADD" -> [ok |-> TRUE, text |-> <<"_", "_", "s", "l", "i", "m", "_", "a", "d", "d", " ">>, negate |-> FALSE]
      [] op = "SUB" -> [ok |-> TRUE, text |-> <<"_", "_", "s", "l", "i", "m", "_", "s", "u", "b", " ">>, negate |-> FALSE]
      [] op = "MUL" -> [ok |-> TRUE, text |-> <<"_", "_", "s", "l", "i", "m", "_", "m", "u", "l", " ">>, negate |-> FALSE]
      [] op = "QUO" -> [ok |-> TRUE, text |-> <<"_", "_", "s", "l", "i", "m", "_", "q", "u", "o", " ">>, negate |-> FALSE]
      [] op = "REM" -> [ok |-> TRUE, text |-> <<"_", "_", "s", "l", "i", "m", "_", "r", "e", "m", " ">>, negate |-> FALSE]
      [] op = "LAND" -> [ok |-> TRUE, text |-> <<"a", "n", "d", " ">>, negate |-> FALSE]
      [] op = "LOR" -> [ok |-> TRUE, text |-> <<"o", "r", " ">>, negate |-> FALSE]
      [] op = "EQL" -> [ok |-> TRUE, text |-> <<"_", "_", "s", "l", "i", "m", "_", "e", "q", "l", " ">>, negate |-> FALSE]
      [] op = "NEQ" -> [ok |-> TRUE, text |-> <<"_", "_", "s", "l", "i", "m", "_", "e", "q", "l", " ">>, negate |-> TRUE]
      [] op = "LSS" -> [ok |-> TRUE, text |-> <<"_", "_", "s", "l", "i", "m", "_", "l", "s", "s", " ">>, negate |-> FALSE]
      [] op = "GTR" -> [ok |-> TRUE, text |-> <<"_", "_", "s", "l", "i", "m", "_", "g", "t", "r", " ">>, negate |-> FALSE]
      [] op = "LEQ" -> [ok |-> TRUE, text |-> <<"_", "_", "s", "l", "i", "m", "_", "g", "t", "r", " ">>, negate |-> TRUE]
      [] op = "GEQ" -> [ok |-> TRUE, text |-> <<"_", "_", "s", "l", "i", "m", "_", "l", "s", "s", " ">>, negate |-> TRUE]
      [] OTHER -> [ok |-> FALSE, text |-> <<>>, negate |-> FALSE]

\* the switch on ue.Op
UnaryFn(op) ==
    CASE op = "SUB" -> [ok |-> TRUE, text |-> <<"_", "_", "s", "l", "i", "m", "_", "m", "i", "n", "u", "s", " ">>]
      [] op = "ADD" -> [ok |-> TRUE, text |-> <<"_", "_", "s", "l", "i", "m", "_", "p", "l", "u", "s", " ">>]
      [] op = "NOT" -> [ok |-> TRUE, text |-> <<"n", "o", "t", " ">>]
      [] OTHER -> [ok |-> FALSE, text |-> <<>>]

\* an identifier lowered to a template variable in every case
IdentRef_Variable(name) == <<"$">> \o name

\* the Ident case of exec: what is pushed for a name
IdentRef(name) ==
    IF HasPrefix(name, <<"_", "_", "D", "O", "L", "L", "A", "R", "_", "_">>)
    THEN IF name = <<"_", "_", "D", "O", "L", "L", "A", "R", "_", "_">> THEN <<".">>
         ELSE <<"$">> \o Drop(name, Len(<<"_", "_", "D", "O", "L", "L", "A", "R", "_", "_">>))
    ELSE <<".">> \o name

\* the operands of a binary expression taken left one first
operandOrder_LeftFirst(be) == <<be.X, be.Y>>

\* exec(be.Y); exec(be.X) of the BinaryExpr case: the operands in the order
\* they are lowered
operandOrder(be) == <<be.Y, be.X>>

RECURSIVE exec(_, _, _), execArgs(_, _, _, _), writeArgs(_, _, _)

\* the loop of the CallExpr case that lowers the arguments, last one first
execArgs(c, stack, args, i) ==
    LET Lowered(r) == execArgs(r.c, r.stack, args, i - 1)
    IN  IF i < 1 \/ c.panic # NoPanic THEN [c |-> c, stack |-> stack]
        ELSE Lowered(exec(c, stack, args[i]))

\* the loop of the CallExpr case that writes one reference per argument
writeArgs(c, stack, n) ==
    IF n < 1 THEN [c |-> c, stack |-> stack]
    ELSE writeArgs(write(write(c, <<" ">>), pop(stack).val), pop(stack).stack, n - 1)

\* exec of visitExpression: the compiler and the stack after lowering expr
exec(c, stack, expr) ==
    LET t == expr.type
        \* BinaryExpr; x: the compiler and the stack after both operands
        Binary(x) ==
            LET name == tempvar(x.c)
                fn == BinaryFn(expr.Op)
                l == pop(x.stack)
                r == pop(pop(x.stack).stack)
                Negated(neg) ==
                    [c |-> write(neg.c, <<"{", "{">> \o neg.name \o <<" ", ":", "=", " ", "n", "o", "t", " ">> \o name.name \o <<"}", "}">>),
                     stack |-> <<neg.name>> \o r.stack]
                Applied(b2) ==
                    IF ~fn.negate THEN [c |-> b2, stack |-> <<name.name>> \o r.stack]
                    ELSE Negated(tempvar(b2))
                Bound(b1) ==
                    IF ~fn.ok
                    THEN [c |-> fail(b1, "Unexpected operator!"), stack |-> x.stack]
                    ELSE Applied(write(write(b1, fn.text),
                                       l.val \o <<" ">> \o r.val \o <<"}", "}">>))
            IN  IF x.c.panic # NoPanic THEN [c |-> x.c, stack |-> x.stack]
                ELSE Bound(write(name.c, <<"{", "{">> \o name.name \o <<" ", ":", "=", " ">>))
        Right(y) == Binary(exec(y.c, y.stack, operandOrder(expr)[2]))
        \* UnaryExpr; u: the compiler and the stack after the operand
        Unary(u) ==
            LET name == tempvar(u.c)
                fn == UnaryFn(expr.Op)
                x == pop(u.stack)
                Bound(u1) ==
                    IF ~fn.ok
                    THEN [c |-> fail(u1, "Unexpected operator!"), stack |-> u.stack]
                    ELSE [c |-> write(write(u1, fn.text), x.val \o <<"}", "}">>),
                          stack |-> <<name.name>> \o x.stack]
            IN  IF u.c.panic # NoPanic THEN u
                ELSE Bound(write(name.c, <<"{", "{">> \o name.name \o <<" ", ":", "=", " ">>))
        \* SelectorExpr; u: the compiler and the stack after the operand
        Selector(u) ==
            LET name == tempvar(u.c)
                x == pop(u.stack)
            IN  IF u.c.panic # NoPanic THEN u
                ELSE [c |-> write(name.c, <<"{", "{">> \o name.name \o <<" ", ":", "=", " ">>
                                              \o (IF x.val = <<".">> THEN <<>> ELSE x.val)
                                              \o <<".">> \o expr.Sel \o <<"}", "}">>),
                      stack |-> <<name.name>> \o x.stack]
        \* CallExpr; a: the compiler and the stack after the arguments
        Call(a) ==
            LET name == tempvar(a.c)
                Written(w) ==
                    [c |-> write(w.c, <<"}", "}">>), stack |-> <<name.name>> \o w.stack]
                Function(f) ==
                    IF f.c.panic # NoPanic THEN f
                    ELSE Written(writeArgs(
                             write(f.c, <<"{", "{">> \o name.name \o <<" ", ":", "=", " ", "c", "a", "l", "l", " ">> \o pop(f.stack).val),
                             pop(f.stack).stack, Len(expr.Args)))
            IN  IF a.c.panic # NoPanic THEN a
                ELSE IF expr.Fun.type = "Ident" /\ expr.Fun.Name \in builtinFunctions
                THEN Written(writeArgs(
                         write(name.c, <<"{", "{">> \o name.name \o <<" ", ":", "=", " ">> \o expr.Fun.Name),
                         a.stack, Len(expr.Args)))
                ELSE Function(exec(name.c, a.stack, expr.Fun))
    IN  IF c.panic # NoPanic THEN [c |-> c, stack |-> stack]
        ELSE IF t = "BinaryExpr" THEN Right(exec(c, stack, operandOrder(expr)[1]))
        ELSE IF t = "UnaryExpr" THEN Unary(exec(c, stack, expr.X))
        ELSE IF t = "ParenExpr" THEN exec(c, stack, expr.X)
        ELSE IF t = "BasicLit" THEN [c |-> c, stack |-> <<expr.Value>> \o stack]
        ELSE IF t = "Ident" THEN [c |-> c, stack |-> <<IdentRef(expr.Name)>> \o stack]
        ELSE IF t = "SelectorExpr" THEN Selector(exec(c, stack, expr.X))
        ELSE IF t = "CallExpr"
        THEN Call(execArgs(c, stack, expr.Args, Len(expr.Args)))
        ELSE [c |-> fail(c, "Unable to parse expression. Unsupported: %s"),
              stack |-> stack]

\* Compiler.visitExpression: the compiler after the bindings were written,
\* and the reference that stands for the expression
visitExpression(c, outerexpr) ==
    LET Lowered(e) == [c |-> e.c, text |-> pop(e.stack).val]
    IN  Lowered(exec(c, <<>>, outerexpr))

\* Compiler.visitRawInterpolation
visitRawInterpolation(c, value) ==
    LET Lowered(r) ==
            IF r.c.panic # NoPanic THEN [c |-> r.c, text |-> <<>>]
            ELSE [c |-> r.c, text |-> Replace(r.text, <<"_", "_", "D", "O", "L", "L", "A", "R", "_", "_">>, <<"$">>)]
        Parsed(parsed) ==
            IF ~parsed.ok
            THEN [c |-> fail(c, "Unable to parse expression."), text |-> <<>>]
            ELSE Lowered(visitExpression(c, parsed.expr))
    IN  IF c.panic # NoPanic THEN [c |-> c, text |-> <<>>]
        ELSE Parsed(ParseExpr(Replace(value, <<"$">>, <<"_", "_", "D", "O", "L", "L", "A", "R", "_", "_">>)))

\* Compiler.visitInterpolation
visitInterpolation(c, value) ==
    LET Wrapped(r) == [c |-> r.c, text |-> <<"{", "{">> \o r.text \o <<"}", "}">>]
    IN  Wrapped(visitRawInterpolation(c, value))

\* textEscapeRegexp.ReplaceAllStringFunc of visitText: every {{...}} of the
\* text is rewritten so that the template engine prints it
RECURSIVE EscapeActions(_)
EscapeActions(s) ==
    LET Action(j) ==
            IF j > 0
            THEN <<"{", "{", "\"", "{", "{", "\"", "}", "}">> \o SubSeq(s, 3, j - 1) \o <<"{", "{", "\"", "}", "}", "\"", "}", "}">>
                     \o EscapeActions(Drop(s, j + 1))
            ELSE <<s[1]>> \o EscapeActions(Tail(s))
    IN  IF s = <<>> THEN <<>>
        ELSE Action(LazyMatch(s, <<"{", "{">>, <<"}", "}">>))

\* textInterpolateRegexp.ReplaceAllStringFunc of visitText: every #{...} is
\* replaced by the interpolation action of its expression
RECURSIVE Interpolate(_, _)
Interpolate(c, s) ==
    LET Rest(v, rest) == [c |-> rest.c, text |-> v.text \o rest.text]
        Replaced(j, v) == Rest(v, Interpolate(v.c, Drop(s, j)))
        Kept(next) == [c |-> next.c, text |-> <<s[1]>> \o next.text]
        Action(j) ==
            IF j > 0 THEN Replaced(j, visitInterpolation(c, SubSeq(s, 3, j - 1)))
            ELSE Kept(Interpolate(c, Tail(s)))
    IN  IF s = <<>> \/ c.panic # NoPanic THEN [c |-> c, text |-> <<>>]
        ELSE Action(LazyMatch(s, <<"#", "{">>, <<"}">>))

\* the loop of visitText over the lines of the value
RECURSIVE writeLines(_, _)
writeLines(c, value) ==
    LET Line(j) ==
            IF j = 0 THEN write(c, value)
            ELSE writeLines(indent(write(c, Take(value, j)), 0, FALSE), Drop(value, j))
    IN  Line(IndexFrom(value, <<"\n">>, 1))

\* Compiler.visitText
visitText(c, txt) ==
    LET Replaced(r) == IF r.c.panic # NoPanic THEN r.c ELSE writeLines(r.c, r.text)
    IN  Replaced(Interpolate(c, EscapeActions(txt.Value)))

\* Compiler.visitDoctype
visitDoctype(c, doctype) == write(c, DoctypeString(doctype))

\* Compiler.visitAssignment
visitAssignment(c, assgn) ==
    LET Lowered(r) ==
            IF r.c.panic # NoPanic THEN r.c
            ELSE write(r.c, <<"{", "{">> \o assgn.Variable \o <<" ", ":", "=", " ">> \o r.text \o <<"}", "}">>)
    IN  Lowered(visitRawInterpolation(c, assgn.Expression))

RECURSIVE Factorial(_)
Factorial(n) == IF n <= 1 THEN 1 ELSE n * Factorial(n - 1)

\* the order in which one iteration over a Go map delivers its keys: any
\* permutation of them; choice selects which one
RECURSIVE MapOrder(_, _)
MapOrder(keys, choice) ==
    IF Len(keys) <= 1 THEN keys
    ELSE LET f == Factorial(Len(keys) - 1)
             i == ((choice \div f) % Len(keys)) + 1
         IN  <<keys[i]>>
                 \o MapOrder(SubSeq(keys, 1, i - 1) \o SubSeq(keys, i + 1, Len(keys)),
                             choice % f)

\* a wrapping that leaves the value as it is
wrapIf_Never(condition, value) == value

\* visitTag's wrapping of a class value that carries a condition
wrapIf(condition, value) ==
    IF Len(condition) > 0
    THEN <<"{", "{", "i", "f", " ">> \o condition \o <<"}", "}">> \o value
             \o <<"{", "{", "e", "n", "d", "}", "}">>
    ELSE value

\* the first loop of visitTag: fills the map attribs from tag.Attributes;
\* names are the keys of the map
RECURSIVE buildAttribs(_, _, _, _, _)
buildAttribs(c, items, i, names, attribs) ==
    LET item == items[i]
        \* attribs["class"] under its own condition, followed by this value
        \* under its condition
        Merged(prev, value, condition) ==
            [value |-> wrapIf(prev.condition, prev.value)
                           \o wrapIf(condition, <<" ">> \o value),
             condition |-> <<>>]
        Stored(c2, value, condition) ==
            IF c2.panic # NoPanic
            THEN [c |-> c2, names |-> names, attribs |-> attribs]
            ELSE IF item.Name = kwClass /\ kwClass \in DOMAIN attribs
            THEN buildAttribs(c2, items, i + 1, names,
                     [attribs EXCEPT ![kwClass] = Merged(@, value, condition)])
            ELSE buildAttribs(c2, items, i + 1,
                     IF item.Name \in DOMAIN attribs THEN names
                     ELSE Append(names, item.Name),
                     (item.Name :> [value |-> value, condition |-> condition]) @@ attribs)
        Guarded(value, ci) == Stored(ci.c, value, ci.text)
        Valued(c1, value) ==
            IF Len(item.Condition) # 0
            THEN Guarded(value, visitRawInterpolation(c1, item.Condition))
            ELSE Stored(c1, value, <<>>)
        Interpolated(vi) == Valued(vi.c, vi.text)
    IN  IF i > Len(items) \/ c.panic # NoPanic
        THEN [c |-> c, names |-> names, attribs |-> attribs]
        ELSE IF ~item.IsRaw THEN Interpolated(visitInterpolation(c, item.Value))
        ELSE Valued(c, IF item.Value = <<>> THEN <<>>
                       ELSE <<"{", "{", "\"">> \o item.Value \o <<"\"", "}", "}">>)

\* the second loop of visitTag: writes the attributes in the order the map
\* iteration delivers them
RECURSIVE writeAttribs(_, _, _, _)
writeAttribs(c, order, attribs, i) ==
    LET name == order[i]
        value == attribs[order[i]]
        Closed(c2) ==
            IF Len(value.condition) > 0 THEN write(c2, <<"{", "{", "e", "n", "d", "}", "}">>)
            ELSE c2
        Opened(c1) ==
            Closed(IF value.value = <<>> THEN write(c1, <<" ">> \o name)
                   ELSE write(c1, <<" ">> \o name \o <<"=", "\"">> \o value.value \o <<"\"">>))
    IN  IF i > Len(order) THEN c
        ELSE writeAttribs(Opened(IF Len(value.condition) > 0
                                 THEN write(c, <<"{", "{", "i", "f", " ">> \o value.condition \o <<"}", "}">>)
                                 ELSE c),
                          order, attribs, i + 1)

RECURSIVE visit(_, _), visitBlock(_, _), visitBlockLoop(_, _, _),
          visitComment(_, _), visitCondition(_, _), visitEach(_, _),
          visitTag(_, _)

\* Compiler.visit: dispatches on the node's type; its deferred function
\* passes a Slim Error on and wraps any other panic (with the node's
\* position, which is not modelled)
visit(c, node) ==
    LET k == node.kind
        Deferred(r) ==
            IF r.panic.kind = "panic"
            THEN [r EXCEPT !.panic = [kind |-> "SlimError", cause |-> r.panic]]
            ELSE r
    IN  IF c.panic # NoPanic THEN c
        ELSE Deferred(IF k = "Block" THEN visitBlock(c, node)
                      ELSE IF k = "Doctype" THEN visitDoctype(c, node)
                      ELSE IF k = "Comment" THEN visitComment(c, node)
                      ELSE IF k = "Tag" THEN visitTag(c, node)
                      ELSE IF k = "Text" THEN visitText(c, node)
                      ELSE IF k = "Condition" THEN visitCondition(c, node)
                      ELSE IF k = "Range" THEN visitEach(c, node)
                      ELSE IF k = "Assignment" THEN visitAssignment(c, node)
                      ELSE c)

\* Compiler.visitBlock; a nil block is dereferenced
visitBlock(c, block) ==
    IF c.panic # NoPanic THEN c
    ELSE IF block = NoNode
    THEN fail(c, "runtime error: invalid memory address or nil pointer dereference")
    ELSE visitBlockLoop(c, block, 1)

\* the loop of visitBlock
visitBlockLoop(c, block, i) ==
    LET node == block.Children[i]
    IN  IF i > Len(block.Children) \/ c.panic # NoPanic THEN c
        ELSE visitBlockLoop(visit(IF ~CanInline(block) /\ node.kind = "Text"
                                  THEN indent(c, 0, TRUE) ELSE c,
                                  node),
                            block, i + 1)

\* Compiler.visitComment
visitComment(c, comment) ==
    LET Closed(b) == IF b.panic # NoPanic THEN b ELSE write(b, <<" ", "-", "-", ">">>)
        Indented(c1) ==
            IF comment.Block = NoNode
            THEN write(c1, <<"{", "{", "u", "n", "e", "s", "c", "a", "p", "e", "d", " ", "\"", "<", "!", "-", "-", " ">> \o escape(comment.Value) \o <<" ", "-", "-", ">", "\"", "}", "}">>)
            ELSE Closed(visitBlock(write(c1, <<"<", "!", "-", "-", " ">> \o comment.Value),
                                   comment.Block))
    IN  IF comment.Silent THEN c ELSE Indented(indent(c, 0, FALSE))

\* a visitCondition that leaves out a positive block that is not there
visitCondition_SkipsNil(c, condition) ==
    LET Ended(n) ==
            IF n.panic # NoPanic THEN n
            ELSE write(n, <<"{", "{", "e", "n", "d", "}", "}">>)
        Positive(p) ==
            IF p.panic # NoPanic THEN p
            ELSE IF condition.Negative # NoNode
            THEN Ended(visitBlock(write(p, <<"{", "{", "e", "l", "s", "e", "}", "}">>),
                                  condition.Negative))
            ELSE Ended(p)
        Expression(e) ==
            IF e.c.panic # NoPanic THEN e.c
            ELSE IF condition.Positive = NoNode
            THEN Positive(write(e.c, <<"{", "{", "i", "f", " ">> \o e.text \o <<"}", "}">>))
            ELSE Positive(visitBlock(write(e.c, <<"{", "{", "i", "f", " ">> \o e.text \o <<"}", "}">>),
                                     condition.Positive))
    IN  Expression(visitRawInterpolation(c, condition.Expression))

\* Compiler.visitCondition
visitCondition(c, condition) ==
    LET Ended(n) ==
            IF n.panic # NoPanic THEN n
            ELSE write(n, <<"{", "{", "e", "n", "d", "}", "}">>)
        Positive(p) ==
            IF p.panic # NoPanic THEN p
            ELSE IF condition.Negative # NoNode
            THEN Ended(visitBlock(write(p, <<"{", "{", "e", "l", "s", "e", "}", "}">>),
                                  condition.Negative))
            ELSE Ended(p)
        Expression(e) ==
            IF e.c.panic # NoPanic THEN e.c
            ELSE Positive(visitBlock(write(e.c, <<"{", "{", "i", "f", " ">> \o e.text \o <<"}", "}">>),
                                     condition.Positive))
    IN  Expression(visitRawInterpolation(c, condition.Expression))

\* Compiler.visitEach
visitEach(c, each) ==
    LET Ended(b) ==
            IF b.panic # NoPanic THEN b
            ELSE write(b, <<"{", "{", "e", "n", "d", "}", "}">>)
        Expression(e) ==
            IF e.c.panic # NoPanic THEN e.c
            ELSE IF Len(each.Value) = 0
            THEN Ended(visitBlock(
                     write(e.c, <<"{", "{", "r", "a", "n", "g", "e", " ">> \o each.Key \o <<" ", ":", "=", " ">> \o e.text \o <<"}", "}">>),
                     each.Block))
            ELSE Ended(visitBlock(
                     write(e.c, <<"{", "{", "r", "a", "n", "g", "e", " ">> \o each.Key \o <<",", " ">> \o each.Value \o <<" ", ":", "=", " ">>
                                    \o e.text \o <<"}", "}">>),
                     each.Block))
    IN  IF each.Block = NoNode THEN c
        ELSE Expression(visitRawInterpolation(c, each.Expression))

\* Compiler.visitTag
visitTag(c, tag) ==
    LET Closed(b) ==
            IF b.panic # NoPanic THEN b
            ELSE write(IF CanInline(tag.Block) THEN b
                       ELSE indent([b EXCEPT !.indentLevel = @ - 1], 0, TRUE),
                       <<"<", "/">> \o tag.Name \o <<">">>)
        \* c1: the compiler after the attributes were written
        Opened(c1) ==
            IF IsAutoclose(tag) THEN write(c1, <<" ", "/", ">">>)
            ELSE IF tag.Block = NoNode
            THEN write(write(c1, <<">">>), <<"<", "/">> \o tag.Name \o <<">">>)
            ELSE Closed(visitBlock(IF CanInline(tag.Block) THEN write(c1, <<">">>)
                                   ELSE [write(c1, <<">">>) EXCEPT !.indentLevel = @ + 1],
                                   tag.Block))
        \* iterated: the compiler after the map iteration took its order
        Ordered(attribs, iterated, order) ==
            Opened(writeAttribs(write(indent(iterated, 0, TRUE), <<"<">> \o tag.Name),
                                order, attribs, 1))
        Built(built) ==
            IF built.c.panic # NoPanic THEN built.c
            ELSE Ordered(built.attribs,
                         IF Len(built.names) >= 2 /\ built.c.oracle # <<>>
                         THEN [built.c EXCEPT !.oracle = Tail(@)] ELSE built.c,
                         MapOrder(built.names,
                                  IF built.c.oracle = <<>> THEN 0
                                  ELSE Head(built.c.oracle)))
    IN  Built(buildAttribs(c, tag.Attributes, 1, <<>>, <<>>))

\* a CompileWriter that hands the buffer to out whether or not the visit
\* failed
CompileWriter_WritesAnyway(c, node) ==
    LET Visited(v) ==
            [c |-> [v EXCEPT !.panic = NoPanic], written |-> v.buffer, error |-> v.panic]
    IN  Visited(visit([c EXCEPT !.buffer = <<>>], node))

\* Compiler.CompileWriter: the compiler after it, the bytes written to out
\* and the error returned
CompileWriter(c, node) ==
    LET Done(done) ==
            [c |-> [done EXCEPT !.buffer = <<>>], written |-> done.buffer,
             error |-> NoPanic]
        Visited(v) ==
            IF v.panic # NoPanic
            THEN [c |-> [v EXCEPT !.panic = NoPanic], written |-> <<>>, error |-> v.panic]
            ELSE Done(IF Len(v.buffer) > 0 THEN write(v, <<"\n">>) ELSE v)
    IN  Visited(visit([c EXCEPT !.buffer = <<>>], node))

\* Compiler.CompileString: the text and the error it returns, and what its
\* buf, the writer it handed to CompileWriter, received
CompileString(c, node) ==
    LET Written(w) ==
            IF w.error # NoPanic
            THEN [c |-> w.c, buf |-> w.written, text |-> <<>>, error |-> w.error]
            ELSE [c |-> w.c, buf |-> w.written, text |-> w.written, error |-> NoPanic]
    IN  Written(CompileWriter(c, node))

-----------------------------------------------------------------------------
(* The token pump: a caller that asks for token after token, and asks for  *)
(* raw capture where parseTag does.                                        *)

\* Tag.IsRawText (IsRawHtml is never set by the parser)
IsRawTextName(name) == name = kwStyle \/ name = kwScript

\* parseTag stands at readmore with an Indent token, for a tag whose body is
\* raw text: the tokens read so far end with that tag's name, the shorthand
\* and inline-text tokens parseTag consumed, and the Indent
RECURSIVE tagBefore(_, _)
tagBefore(toks, i) ==
    IF i < 1 THEN NoTok
    ELSE IF toks[i].Kind = "tokTag" THEN toks[i]
    ELSE IF toks[i].Kind \in {"tokId", "tokClass", "tokAttribute"}
            \/ (toks[i].Kind = "tokText" /\ toks[i].Data.Mode # "piped")
         THEN tagBefore(toks, i - 1)
    ELSE NoTok

RawDue(toks) ==
    /\ Len(toks) >= 2
    /\ toks[Len(toks)].Kind = "tokIndent"
    /\ tagBefore(toks, Len(toks) - 1) # NoTok
    /\ IsRawTextName(tagBefore(toks, Len(toks) - 1).Value)

Indentations == {<<>>, <<" ">>, <<" ", " ">>, <<"\t">>}

Contents == {<<"p">>, kwStyle, <<"a", " ", "b">>}

\* the lines of the pump's inputs: every indentation before every content,
\* and the empty line
ScanLines ==
    {[text |-> ind \o c, nl |-> TRUE] : ind \in Indentations, c \in Contents}
        \cup {[text |-> <<>>, nl |-> TRUE]}

SeqsUpTo(S, n) == UNION {[1..k -> S] : k \in 0..n}

InitScan ==
    /\ scan \in {newScanner(input) : input \in SeqsUpTo(ScanLines, MaxLines)}
    /\ tokens = <<>>
    /\ calls = <<>>
    /\ scanPanic = ""
    /\ source = <<>>
    /\ files = <<>>
    /\ options = DefaultOptions
    /\ parser = newParser(<<>>)
    /\ store = <<>>
    /\ parseErr = NoPanic
    /\ parses = 0
    /\ outputs = <<>>
    /\ exprIn = NoExpr
    /\ lowered = <<>>

\* parseTag, case tokIndent: p.scanner.readRaw = true
SetReadRaw ==
    /\ scanPanic = ""
    /\ RawDue(tokens)
    /\ ~scan.readRaw
    /\ scan' = [scan EXCEPT !.readRaw = TRUE]
    /\ UNCHANGED <<tokens, calls, scanPanic>>
    /\ UNCHANGED parseVars
    /\ UNCHANGED exprVars

\* the pump has seen end of input twice and stops asking
PumpDone ==
    /\ Len(tokens) >= 2
    /\ tokens[Len(tokens)].Kind = "tokEOF"
    /\ tokens[Len(tokens) - 1].Kind = "tokEOF"

\* what one Next() call met and did: the scanner as the call found it, the
\* line it read from the input (if it read one) and the scanner it left
CallRecord(before, r) ==
    [raw |-> before.readRaw,
     stash |-> before.stash,
     stack |-> before.indents,
     buffer |-> before.buffer,
     unread |-> Len(before.reader),
     readLine |-> ~before.readRaw /\ before.buffer = <<>> /\ before.reader # <<>>
                  /\ Head(before.reader).nl,
     text |-> IF before.reader # <<>> THEN Head(before.reader).text ELSE <<>>,
     stackAfter |-> r.s.indents,
     stashAfter |-> r.s.stash,
     failed |-> r.panic # "",
     tok |-> r.tok]

\* one call of scanner.Next() by the pump
CallNext ==
    /\ scanPanic = ""
    /\ ~PumpDone
    /\ RawDue(tokens) => scan.readRaw
    /\ \E r \in {Next(scan)} :
           /\ scan' = r.s
           /\ scanPanic' = r.panic
           /\ tokens' = IF r.panic = "" THEN Append(tokens, r.tok) ELSE tokens
           /\ calls' = Append(calls, CallRecord(scan, r))
    /\ UNCHANGED parseVars
    /\ UNCHANGED exprVars

NextScan == SetReadRaw \/ CallNext

SpecScan == InitScan /\ [][NextScan]_vars

\* inputs for raw capture: the tag style at column 0, then lines one and
\* two levels deep, lines at column 0 and blank lines
RawLines ==
    {[text |-> l, nl |-> TRUE] : l \in {<<" ", "a">>, <<" ", " ", "b">>, <<"p">>, <<>>}}

RawInputs ==
    {<<[text |-> kwStyle, nl |-> TRUE]>> \o rest : rest \in SeqsUpTo(RawLines, MaxLines)}

\* the pump over these inputs; source keeps the input as it was given
InitRaw ==
    /\ source \in RawInputs
    /\ scan = newScanner(source)
    /\ tokens = <<>>
    /\ calls = <<>>
    /\ scanPanic = ""
    /\ files = <<>>
    /\ options = DefaultOptions
    /\ parser = newParser(<<>>)
    /\ store = <<>>
    /\ parseErr = NoPanic
    /\ parses = 0
    /\ outputs = <<>>
    /\ exprIn = NoExpr
    /\ lowered = <<>>

SpecRaw == InitRaw /\ [][NextScan]_vars

\* inputs whose levels are indented with different whitespace: a space, then
\* a tab more
MixedLines ==
    {[text |-> l, nl |-> TRUE] :
        l \in {kwStyle, <<"p">>, <<" ", "p">>, <<" ", "\t", "p">>}}

\* the pump over these inputs
InitMixed ==
    /\ source \in SeqsUpTo(MixedLines, MaxLines)
    /\ scan = newScanner(source)
    /\ tokens = <<>>
    /\ calls = <<>>
    /\ scanPanic = ""
    /\ files = <<>>
    /\ options = DefaultOptions
    /\ parser = newParser(<<>>)
    /\ store = <<>>
    /\ parseErr = NoPanic
    /\ parses = 0
    /\ outputs = <<>>
    /\ exprIn = NoExpr
    /\ lowered = <<>>

SpecMixed == InitMixed /\ [][NextScan]_vars

-----------------------------------------------------------------------------
(* The parser and the generator at work: a parser is made for a source,    *)
(* optionally given a path, asked to parse, and the tree it returns is     *)
(* compiled by fresh Compilers.                                            *)

\* the lines the sources are made of
DoctypeLine == <<"d", "o", "c", "t", "y", "p", "e", " ", "5">>

HtmlLine == <<"h", "t", "m", "l">>

HelloLine == <<"p", " ", "H", "e", "l", "l", "o", " ", "#", "{", "n", "a", "m", "e", "}">>

ShorthandLine == <<"p", "#", "a", ".", "b">>

ExtendLine == <<"e", "x", "t", "e", "n", "d", " ", "p", "a", "r", "e", "n", "t">>

ContentLine == <<"b", "l", "o", "c", "k", " ", "c", "o", "n", "t", "e", "n", "t">>

AppendLine == <<"b", "l", "o", "c", "k", " ", "a", "p", "p", "e", "n", "d", " ", "c", "o", "n", "t", "e", "n", "t">>

PrependLine == <<"b", "l", "o", "c", "k", " ", "p", "r", "e", "p", "e", "n", "d", " ", "c", "o", "n", "t", "e", "n", "t">>

\* the top-level constructs the sources are made of, each with its lines: a
\* doctype, tags, a blank line, the named block "content" without and with a
\* modifier, and an extend line alone and followed by a blank line
Items ==
    {<<DoctypeLine>>,
     <<HtmlLine>>,
     <<HelloLine>>,
     <<ShorthandLine>>,
     <<<<>>>>,
     <<ContentLine, <<" ", "q">>>>,
     <<AppendLine, <<" ", "q">>, <<" ", "r">>>>,
     <<PrependLine, <<" ", "q">>, <<" ", "r">>>>,
     <<ExtendLine>>,
     <<ExtendLine, <<>>>>}

RECURSIVE Flatten(_)
Flatten(items) == IF items = <<>> THEN <<>> ELSE Head(items) \o Flatten(Tail(items))

\* the lines as a reader delivers them; last: the final line ends with a
\* newline too
Terminated(lines, last) ==
    [i \in 1..Len(lines) |-> [text |-> lines[i], nl |-> i < Len(lines) \/ last]]

Sources ==
    {Terminated(Flatten(items), last) :
        items \in SeqsUpTo(Items, MaxItems), last \in BOOLEAN}

\* what the file t/parent.html.slim may hold
ParentFiles ==
    {<<<<"b", "l", "o", "c", "k", " ", "c", "o", "n", "t", "e", "n", "t">>, <<" ", "x">>, <<" ", "y">>>>,
     <<<<"h", "t", "m", "l">>, <<" ", "b", "l", "o", "c", "k", " ", "c", "o", "n", "t", "e", "n", "t">>, <<" ", " ", "x">>>>}

ParentName == <<"t", "/", "p", "a", "r", "e", "n", "t", ".", "h", "t", "m", "l", ".", "s", "l", "i", "m">>

\* the file a parser made by NewFileParser reads the source from
ChildName == <<"t", "/", "c", "h", "i", "l", "d", ".", "h", "t", "m", "l", ".", "s", "l", "i", "m">>

Paths == {<<"t">>}

\* the orders handed to a Compiler for its map iterations
Oracles == [1..MaxIterations -> 0..(Factorial(MaxAttribNames) - 1)]

\* the state after construction for a source out of srcs, with the file
\* t/parent.html.slim holding one of parents: the parser is made for the
\* source by NewStringParser, or by NewFileParser for the file that holds it
MadeWith(srcs, parents) ==
    /\ source \in srcs
    /\ files \in {(ParentName :> Terminated(lines, TRUE)) @@ (ChildName :> source) :
                      lines \in parents}
    /\ options \in {[PrettyPrint |-> pp, LineNumbers |-> FALSE] : pp \in BOOLEAN}
    /\ parser \in {newParser(source), NewFileParser(ChildName).parser}
    /\ store = <<>>
    /\ parseErr = NoPanic
    /\ parses = 0
    /\ outputs = <<>>
    /\ scan = newScanner(<<>>)
    /\ tokens = <<>>
    /\ calls = <<>>
    /\ scanPanic = ""
    /\ exprIn = NoExpr
    /\ lowered = <<>>

Made(srcs) == MadeWith(srcs, ParentFiles)

Init == Made(Sources)

\* Parse() has not been called yet
Fresh == parser.token = NoTok /\ parser.result = NoNode /\ parseErr = NoPanic

\* Parser.SetPath, before the parse
SetPath ==
    /\ Fresh
    /\ parser.filepath = <<>>
    /\ \E path \in Paths : parser' = [parser EXCEPT !.filepath = path]
    /\ UNCHANGED <<source, files, options, store, parseErr, outputs, parses>>
    /\ UNCHANGED scanVars
    /\ UNCHANGED exprVars

\* Parser.Parse, called on the parser of the source
CallParse ==
    /\ parseErr = NoPanic
    /\ \E r \in {Parse(parser, store)} :
           /\ parser' = r.p
           /\ store' = r.heap
           /\ parseErr' = r.panic
    /\ UNCHANGED <<source, files, options, outputs, parses>>
    /\ UNCHANGED scanVars
    /\ UNCHANGED exprVars

\* Parser.Parse, called once more on a parser that has its result
CallParseAgain ==
    /\ parseErr = NoPanic
    /\ parser.result # NoNode
    /\ parses < MaxParses
    /\ \E r \in {Parse(parser, store)} :
           /\ parser' = r.p
           /\ store' = r.heap
           /\ parseErr' = r.panic
    /\ parses' = parses + 1
    /\ UNCHANGED <<source, files, options, outputs>>
    /\ UNCHANGED scanVars
    /\ UNCHANGED exprVars

\* the tree the parser returned, as a generator walks it
Tree == Deref(parser.result, store)

\* a fresh Compiler is given the options and the parsed tree, and
\* CompileString is called on it
CallCompile ==
    /\ parser.result # NoNode
    /\ Len(outputs) < MaxCompiles
    /\ \E oracle \in Oracles :
           \E r \in {CompileString(New(options, oracle), Tree)} :
               outputs' = Append(outputs, [text |-> r.text, error |-> r.error,
                                           buf |-> r.buf, buffer |-> r.c.buffer,
                                           tempvarIndex |-> r.c.tempvarIndex,
                                           indentLevel |-> r.c.indentLevel,
                                           again |-> FALSE])
    /\ UNCHANGED <<source, files, options, parser, store, parseErr, parses>>
    /\ UNCHANGED scanVars
    /\ UNCHANGED exprVars

\* the Compiler that ran the compile recorded in last, as its next compile
\* finds it: New() is the only place that sets the counters, CompileWriter
\* replaces the buffer only
Kept(last, oracle) ==
    [New(options, oracle) EXCEPT !.tempvarIndex = last.tempvarIndex,
                                 !.indentLevel = last.indentLevel]

\* CompileString is called once more on the Compiler of the latest compile
CallCompileAgain ==
    /\ parser.result # NoNode
    /\ outputs # <<>>
    /\ Len(outputs) < MaxCompiles
    /\ \E oracle \in Oracles :
           \E r \in {CompileString(Kept(outputs[Len(outputs)], oracle), Tree)} :
               outputs' = Append(outputs, [text |-> r.text, error |-> r.error,
                                           buf |-> r.buf, buffer |-> r.c.buffer,
                                           tempvarIndex |-> r.c.tempvarIndex,
                                           indentLevel |-> r.c.indentLevel,
                                           again |-> TRUE])
    /\ UNCHANGED <<source, files, options, parser, store, parseErr, parses>>
    /\ UNCHANGED scanVars
    /\ UNCHANGED exprVars

NextStep == SetPath \/ CallParse \/ CallCompile

Spec == Init /\ [][NextStep]_vars

\* the parser asked to parse again and again
NextAgain == SetPath \/ CallParse \/ CallParseAgain

SpecAgain == Init /\ [][NextAgain]_vars

\* sources with blocks inside blocks: a named block of the same name nested
\* in a named block
NestedLine == <<" ", "b", "l", "o", "c", "k", " ", "c", "o", "n", "t", "e", "n", "t">>

\* a tag with text, and inside it a tag whose text interpolates nothing
TextLine == <<"p", " ", "a">>

EmptyInterpolationLine == <<" ", "p", " ", "#", "{", "}">>

\* loops over xs with one and with two variables, with a body and without
EachLine == <<"e", "a", "c", "h", " ", "$", "k", " ", "i", "n", " ", "x", "s">>

EachBothLine == <<"e", "a", "c", "h", " ", "$", "k", ",", " ", "$", "v", " ", "i", "n", " ", "x", "s">>

BodyLine == <<" ", "q">>

BlockItems ==
    {<<HtmlLine>>,
     <<ContentLine, BodyLine>>,
     <<ContentLine, NestedLine>>,
     <<TextLine, EmptyInterpolationLine>>,
     <<EachLine>>,
     <<EachLine, BodyLine>>,
     <<EachBothLine, BodyLine>>}

BlockSources ==
    {Terminated(Flatten(items), last) :
        items \in SeqsUpTo(BlockItems, MaxItems), last \in BOOLEAN}

InitBlocks == Made(BlockSources)

SpecBlocks == InitBlocks /\ [][NextStep]_vars

\* sources with id, class and attribute tokens inside blocks: a tag p whose
\* block holds a guarded id, a class and a guarded attribute; the same
\* tokens in the block of a condition, an each, a comment, a named block and
\* a bare indent; and a guarded id and a guarded attribute on the line of
\* the tag
TagLine == <<"p">>

GuardedIdLine == <<" ", "#", "a", " ", "?", " ", "x">>

ClassLine == <<" ", ".", "b">>

GuardedAttributeLine == <<" ", "[", "c", "]", " ", "?", " ", "y">>

IfLine == <<"i", "f", " ", "x">>

CommentLine == <<"/", "/", " ", "c">>

TagGuardedIdLine == <<"p", "#", "a", " ", "?", " ", "x">>

TagGuardedAttributeLine == <<"p", "[", "c", "]", " ", "?", " ", "y">>

OwnedByTag == <<TagLine, GuardedIdLine, ClassLine, GuardedAttributeLine>>

NotOwnedByTag ==
    {<<IfLine, GuardedIdLine>>,
     <<EachLine, GuardedIdLine>>,
     <<CommentLine, ClassLine>>,
     <<ContentLine, GuardedAttributeLine>>,
     <<GuardedIdLine>>}

GuardedOnTagLine == {<<TagGuardedIdLine>>, <<TagGuardedAttributeLine>>}

\* the tag p with one bracket attribute: with a quoted value, with the
\* quoted empty value, with no value, and with an unquoted value
QuotedLine == <<"p", "[", "c", "=", "\"", "v", "\"", "]">>

QuotedEmptyLine == <<"p", "[", "c", "=", "\"", "\"", "]">>

NoValueLine == <<"p", "[", "c", "]">>

UnquotedLine == <<"p", "[", "c", "=", "v", "]">>

BracketLines == {QuotedLine, QuotedEmptyLine, NoValueLine, UnquotedLine}

AttrItems ==
    {<<HtmlLine>>, OwnedByTag} \cup NotOwnedByTag \cup GuardedOnTagLine
        \cup {<<l>> : l \in BracketLines}

AttrSources ==
    {Terminated(Flatten(items), last) :
        items \in SeqsUpTo(AttrItems, MaxItems), last \in BOOLEAN}

InitAttrs == Made(AttrSources)

SpecAttrs == InitAttrs /\ [][NextStep]_vars

\* sources of assignments, tags with text and attributes, and conditions,
\* given to a parser made by NewStringParser
AssignmentLine == <<"$", "v", " ", "=", " ", "x", "s">>

\* lines that hold one shorthand or attribute and no tag
IdOnlyLine == <<"#", "a">>

ClassOnlyLine == <<".", "b">>

AttributeOnlyLine == <<"[", "c", "]">>

\* a tag with two classes on its line, and the lines of a nested block that
\* give the classes a and b with and without a guard
TwoClassLine == <<"p", ".", "a", ".", "b">>

FirstClassLine == <<" ", ".", "a">>

GuardedFirstClassLine == <<" ", ".", "a", " ", "?", " ", "x">>

GuardedSecondClassLine == <<" ", ".", "b", " ", "?", " ", "y">>

\* a line of plain text: nothing but a text token matches it
MarkupLine == <<"<", "b", ">">>

\* the tag p with a text that interpolates the string literal "a$b", and
\* one that interpolates the call of f on that literal
LiteralLine == <<"p", " ", "#", "{", "\"", "a", "$", "b", "\"", "}">>

LiteralOperandLine == <<"p", " ", "#", "{", "f", "(", "\"", "a", "$", "b", "\"", ")", "}">>

FormItems ==
    {<<HtmlLine>>,
     <<LiteralLine>>,
     <<LiteralOperandLine>>,
     <<AssignmentLine>>,
     <<TextLine, MarkupLine>>,
     <<TextLine, BodyLine>>,
     <<TagLine, IdOnlyLine>>,
     <<TagLine, ClassOnlyLine>>,
     <<TagLine, AttributeOnlyLine>>,
     <<TwoClassLine>>,
     <<TagLine, GuardedFirstClassLine, ClassLine>>,
     <<TagLine, FirstClassLine, GuardedSecondClassLine>>,
     <<TagLine, GuardedFirstClassLine, GuardedSecondClassLine>>}

FormSources ==
    {Terminated(Flatten(items), last) :
        items \in SeqsUpTo(FormItems, MaxItems), last \in BOOLEAN}

InitForms == Made(FormSources) /\ parser.filename = <<>>

SpecForms == InitForms /\ [][NextStep]_vars

\* sources of conditions whose blocks are indented by a tab
ElseIfLine == <<"e", "l", "s", "e", " ", "i", "f", " ", "y">>

ElseLine == kwElse

TabLine(name) == <<"\t", name>>

\* if, else if and else, each with its block
ElseIfItem ==
    <<IfLine, TabLine("p"), ElseIfLine, TabLine("q"), ElseLine, TabLine("r")>>

\* if and else, each with its block
ElseItem == <<IfLine, TabLine("p"), ElseLine, TabLine("r")>>

\* else followed by a tag at its own indentation
ElseTagItem == <<IfLine, TabLine("p"), ElseLine, <<"q">>>>

\* a line that gives the token elseif
ElsifLine == <<"e", "l", "s", "i", "f", " ", "y">>

\* if with its block, then elsif with its block
ElsifItem == <<IfLine, TabLine("p"), ElsifLine, TabLine("q")>>

\* if with its block, then two elsif lines
ElsifTwiceItem == <<IfLine, TabLine("p"), ElsifLine, ElsifLine>>

\* elsif in the block of a tag
ElsifInBlockItem == <<TagLine, <<"\t", "e", "l", "s", "i", "f", " ", "y">>>>

CondItems ==
    {<<HtmlLine>>, ElseIfItem, ElseItem, ElseTagItem,
     ElsifItem, ElsifTwiceItem, ElsifInBlockItem, <<ElsifLine>>,
     <<IfLine>>, <<EachLine>>}

CondSources ==
    {Terminated(Flatten(items), last) :
        items \in SeqsUpTo(CondItems, MaxItems), last \in BOOLEAN}

InitConds == Made(CondSources)

SpecConds == InitConds /\ [][NextStep]_vars

\* sources that extend or import the file t/parent.html.slim, which itself
\* extends or imports t/parent.html.slim
ImportLine == <<"i", "m", "p", "o", "r", "t", " ", "p", "a", "r", "e", "n", "t">>

CycleItems == {<<HtmlLine>>, <<DoctypeLine>>, <<ExtendLine>>, <<ImportLine>>}

CycleSources ==
    {Terminated(Flatten(items), last) :
        items \in SeqsUpTo(CycleItems, MaxItems), last \in BOOLEAN}

CyclicParents == {<<ExtendLine>>, <<ImportLine>>}

InitCycle == MadeWith(CycleSources, CyclicParents)

SpecCycle == InitCycle /\ [][NextStep]_vars

\* sources that fail in the parse or in the generation, in their own file or
\* in the file they extend or import
BadTextLine == <<"p", " ", "#", "{", "}">>

FailItems ==
    {<<HtmlLine>>, <<ElsifLine>>, <<BadTextLine>>, <<ExtendLine>>, <<ImportLine>>}

FailSources ==
    {Terminated(Flatten(items), last) :
        items \in SeqsUpTo(FailItems, MaxItems), last \in BOOLEAN}

\* the parent fails in its own parse, or is parsed
FailingParents == {<<ElsifLine>>, <<HtmlLine>>}

InitFail == MadeWith(FailSources, FailingParents)

SpecFail == InitFail /\ [][NextStep]_vars

\* children that extend a parent recording the blocks "content" and "side":
\* a tag and a block the parent does not know, and overrides of one of the
\* parent's blocks each
OtherLine == <<"b", "l", "o", "c", "k", " ", "o", "t", "h", "e", "r">>

AppendSideLine == <<"b", "l", "o", "c", "k", " ", "a", "p", "p", "e", "n", "d", " ", "s", "i", "d", "e">>

OwnNodesItem == <<<<"w">>, <<>>, OtherLine, TabLine("z")>>

ExtendItems ==
    {<<ExtendLine, <<>>>>,
     OwnNodesItem,
     <<ContentLine, TabLine("q")>>,
     <<AppendSideLine, TabLine("r")>>}

ExtendSources ==
    {Terminated(Flatten(items), last) :
        items \in SeqsUpTo(ExtendItems, MaxItems), last \in BOOLEAN}

TwoBlockParents ==
    {<<HtmlLine, <<"\t", "b", "l", "o", "c", "k", " ", "c", "o", "n", "t", "e", "n", "t">>, <<"\t", "\t", "x">>, <<"\t", "b", "l", "o", "c", "k", " ", "s", "i", "d", "e">>, <<"\t", "\t", "y">>>>,
     <<ContentLine, TabLine("x"), TabLine("y")>>}

InitExtend == MadeWith(ExtendSources, TwoBlockParents)

SpecExtend == InitExtend /\ [][NextStep]_vars

\* inputs whose last line may end without a newline
LastLineTexts == {kwStyle, <<"p">>, <<" ", "p">>, <<>>}

LastInputs ==
    {Terminated(lines, last) :
        lines \in SeqsUpTo(LastLineTexts, MaxLines), last \in BOOLEAN}

\* the pump over these inputs
InitLast ==
    /\ source \in LastInputs
    /\ scan = newScanner(source)
    /\ tokens = <<>>
    /\ calls = <<>>
    /\ scanPanic = ""
    /\ files = <<>>
    /\ options = DefaultOptions
    /\ parser = newParser(<<>>)
    /\ store = <<>>
    /\ parseErr = NoPanic
    /\ parses = 0
    /\ outputs = <<>>
    /\ exprIn = NoExpr
    /\ lowered = <<>>

SpecLast == InitLast /\ [][NextScan]_vars

\* templates compiled twice by one Compiler: with and without an expression
\* that needs a temporary, none with more than one attribute name
CallLine == <<"p", " ", "#", "{", "f", "(", "x", ")", "}">>

ReuseItems ==
    {<<HtmlLine>>, <<HelloLine>>, <<CallLine>>, <<LiteralOperandLine>>,
     <<TextLine, BodyLine>>}

ReuseSources ==
    {Terminated(Flatten(items), last) :
        items \in SeqsUpTo(ReuseItems, MaxItems), last \in BOOLEAN}

InitReuse == Made(ReuseSources)

NextReuse == SetPath \/ CallParse \/ CallCompile \/ CallCompileAgain

SpecReuse == InitReuse /\ [][NextReuse]_vars

-----------------------------------------------------------------------------
(* The expression lowering at work: visitExpression is handed the tree of  *)
(* an expression, as go/parser returns it, by a fresh Compiler.            *)

\* the go/ast nodes visitExpression has a case for
BinaryExpr(op, x, y) == [type |-> "BinaryExpr", Op |-> op, X |-> x, Y |-> y]

UnaryExpr(op, x) == [type |-> "UnaryExpr", Op |-> op, X |-> x]

ParenExpr(x) == [type |-> "ParenExpr", X |-> x]

SelectorExpr(x, sel) == [type |-> "SelectorExpr", X |-> x, Sel |-> sel]

CallExpr(fun, args) == [type |-> "CallExpr", Fun |-> fun, Args |-> args]

\* the operators the switch on be.Op has a case for, and one it has none for
BinaryOps ==
    {"ADD", "SUB", "MUL", "QUO", "REM", "LAND", "LOR", "EQL", "NEQ", "LSS",
     "GTR", "LEQ", "GEQ", "XOR"}

UnaryOps == {"SUB", "ADD", "NOT", "XOR"}

Operands == {Ident(<<"a">>), Ident(<<"b">>), Ident(<<"c">>), BasicLit(<<"1">>)}

\* expressions that need a temporary (the last three need two)
Inner ==
    {BinaryExpr("MUL", Ident(<<"b">>), Ident(<<"c">>)),
     BinaryExpr("NEQ", Ident(<<"a">>), Ident(<<"b">>)),
     UnaryExpr("NOT", Ident(<<"a">>)),
     SelectorExpr(Ident(<<"a">>), <<"f">>),
     CallExpr(Ident(<<"l", "e", "n">>), <<Ident(<<"a">>)>>),
     CallExpr(Ident(<<"f">>), <<Ident(<<"a">>), Ident(<<"b">>)>>),
     ParenExpr(BinaryExpr("ADD", Ident(<<"a">>), Ident(<<"b">>))),
     CallExpr(SelectorExpr(Ident(<<"a">>), <<"f">>), <<Ident(<<"b">>)>>),
     BinaryExpr("SUB", UnaryExpr("SUB", Ident(<<"a">>)), Ident(<<"b">>)),
     BinaryExpr("LEQ", Ident(<<"a">>), BasicLit(<<"1">>))}

\* the operators of the expressions that have expressions as operands
OuterOps == {"ADD", "EQL", "NEQ", "LSS", "GTR", "LEQ", "GEQ", "LAND"}

\* the expressions handed to visitExpression
Exprs ==
    Operands
        \cup {BinaryExpr(op, x, y) : op \in BinaryOps, x \in Operands, y \in Operands}
        \cup {UnaryExpr(op, x) : op \in UnaryOps, x \in Operands \cup Inner}
        \cup Inner
        \cup {BinaryExpr(op, x, y) :
                 op \in OuterOps, x \in Operands \cup Inner, y \in Operands \cup Inner}
        \cup {SelectorExpr(x, <<"g">>) : x \in Inner}
        \cup {CallExpr(Ident(<<"f">>), <<x, y>>) : x \in Inner, y \in Inner}

InitExpr ==
    /\ exprIn \in Exprs
    /\ lowered = <<>>
    /\ scan = newScanner(<<>>)
    /\ tokens = <<>>
    /\ calls = <<>>
    /\ scanPanic = ""
    /\ source = <<>>
    /\ files = <<>>
    /\ options = DefaultOptions
    /\ parser = newParser(<<>>)
    /\ store = <<>>
    /\ parseErr = NoPanic
    /\ parses = 0
    /\ outputs = <<>>

\* Compiler.visitExpression called by a fresh Compiler: what it wrote into
\* the buffer, the reference it returned, and the panic it ended with
CallVisitExpression ==
    /\ exprIn # NoExpr
    /\ lowered = <<>>
    /\ \E r \in {visitExpression(New(options, <<>>), exprIn)} :
           lowered' = Append(lowered, [written |-> r.c.buffer, ref |-> r.text,
                                       panic |-> r.c.panic])
    /\ UNCHANGED exprIn
    /\ UNCHANGED scanVars
    /\ UNCHANGED parseVars

NextExpr == CallVisitExpression

SpecExpr == InitExpr /\ [][NextExpr]_vars

-----------------------------------------------------------------------------
(* Claims about the tokenizer, stated over the behaviours of SpecScan.     *)

CountKind(toks, kind) == Cardinality({i \in 1..Len(toks) : toks[i].Kind = kind})

\* no end-of-input token among the first n tokens
NoEOFBefore(toks, n) == \A i \in 1..n : toks[i].Kind # "tokEOF"

\* the indentation of a line as the spec reads it: how many entries of the
\* stack, taken in nesting order, are literal prefixes of what is left of the
\* line, and what is left after them
RECURSIVE PrefixWalk(_, _, _)
PrefixWalk(stack, i, rest) ==
    IF i > Len(stack) \/ ~HasPrefix(rest, stack[i])
    THEN [matched |-> i - 1, rest |-> rest]
    ELSE PrefixWalk(stack, i + 1, Drop(rest, Len(stack[i])))

\* the line closes this many open levels: it is not blank, its indentation is
\* exactly the first entries of the stack, and it leaves the others open
LevelsClosed(stack, text) ==
    LET w == PrefixWalk(stack, 1, TrimRight(text))
    IN  IF TrimRight(text) # <<>> /\ w.rest[1] \notin Space
        THEN Len(stack) - w.matched ELSE 0

\* some entry of the stack is no prefix of the line while what is left of the
\* line still starts with whitespace
IndentMismatch(stack, text) ==
    LET w == PrefixWalk(stack, 1, TrimRight(text))
    IN  /\ TrimRight(text) # <<>>
        /\ w.matched < Len(stack)
        /\ w.rest[1] \in Space

\* C3: up to and including the first end-of-input token, no prefix of the
\* token sequence holds more Outdents than Indents, and at the end-of-input
\* token the two numbers are equal
C3_IndentOutdentBalance ==
    \A n \in 1..Len(tokens) :
        NoEOFBefore(tokens, n - 1) =>
            /\ CountKind(Take(tokens, n), "tokOutdent")
                   <= CountKind(Take(tokens, n), "tokIndent")
            /\ tokens[n].Kind = "tokEOF" =>
                   CountKind(Take(tokens, n), "tokOutdent")
                       = CountKind(Take(tokens, n), "tokIndent")

\* C4: outside raw capture, a call that reads a line closing k >= 1 levels
\* shrinks the stack by k, and this call and the k-1 calls after it each
\* return an Outdent
C4_OutdentPerClosedLevel ==
    \A i \in 1..Len(calls) :
        LET c == calls[i]
            k == LevelsClosed(c.stack, c.text)
        IN  (c.readLine /\ c.stash = <<>> /\ k >= 1) =>
                /\ ~c.failed
                /\ Len(c.stackAfter) = Len(c.stack) - k
                /\ \A j \in i..(i + k - 1) :
                       j <= Len(calls) =>
                           ~calls[j].failed /\ calls[j].tok.Kind = "tokOutdent"

\* C5: a call that reads a line whose indentation mismatches the stack fails
\* and returns no token
C5_MismatchFails ==
    \A i \in 1..Len(calls) :
        (calls[i].readLine /\ calls[i].stash = <<>>
            /\ IndentMismatch(calls[i].stack, calls[i].text))
            => calls[i].failed

\* the call found the input exhausted, nothing stashed, no raw capture asked
Exhausted(c) == c.unread = 0 /\ c.buffer = <<>> /\ c.stash = <<>> /\ ~c.raw

\* C6: from a call that finds the input exhausted with d entries on the
\* stack and an empty stash, d calls return an Outdent and pop one entry
\* each, and every call after them returns end-of-input with the stack empty
C6_EOFOutdentsThenEOF ==
    \A i \in 1..Len(calls) :
        Exhausted(calls[i]) =>
            LET d == Len(calls[i].stack)
            IN  \A j \in i..Len(calls) :
                    /\ ~calls[j].failed
                    /\ j < i + d =>
                           /\ calls[j].tok.Kind = "tokOutdent"
                           /\ calls[j].stackAfter = Take(calls[i].stack, d - (j - i) - 1)
                    /\ j >= i + d =>
                           /\ calls[j].tok.Kind = "tokEOF"
                           /\ calls[j].stackAfter = <<>>

\* C6 witness: the input ran out with two levels open, and the pump went on
\* until it had seen end-of-input twice
C6_Witness ==
    /\ PumpDone
    /\ \E i \in 1..Len(calls) : Exhausted(calls[i]) /\ Len(calls[i].stack) >= 2

\* what the call that read the line text removed from it, given the buffer
\* the next call found: the line is what was removed followed by the buffer
RemovedLeadingWhitespace(text, buffer) ==
    /\ Len(buffer) <= Len(text)
    /\ SubSeq(text, Len(text) - Len(buffer) + 1, Len(text)) = buffer
    /\ \A j \in 1..(Len(text) - Len(buffer)) : text[j] \in Space

\* C25: a call that reads a line and answers with the Indent or the Outdent
\* scanIndent returned has removed from the line nothing but leading
\* whitespace: the buffer the next call finds is the line without some of
\* its leading whitespace
C25_OnlyLeadingWhitespace ==
    \A i \in 1..(Len(calls) - 1) :
        (/\ calls[i].readLine
         /\ calls[i].stash = <<>>
         /\ ~calls[i].failed
         /\ calls[i].tok.Kind \in {"tokIndent", "tokOutdent"}) =>
            RemovedLeadingWhitespace(calls[i].text, calls[i + 1].buffer)

\* C26 as stated: every entry of the stack is a literal prefix of the next
\* deeper entry
C26_EntryPrefixOfNext ==
    \A i \in 1..(Len(scan.indents) - 1) :
        HasPrefix(scan.indents[i + 1], scan.indents[i])

\* a non-empty string of whitespace
IsWhitespace(w) == w # <<>> /\ \A j \in 1..Len(w) : w[j] \in Space

\* C26 amended: every entry of the stack is a non-empty string of
\* whitespace, the whitespace its level adds to the enclosing one, and the
\* entries are in nesting order: a call outside raw capture leaves the stack
\* as it was with the literal of the Indent it returns added at the back, or
\* with entries removed from the back
C26_EntriesAreIncrements ==
    /\ \A i \in 1..Len(scan.indents) : IsWhitespace(scan.indents[i])
    /\ \A i \in 1..Len(calls) :
           (~calls[i].raw /\ ~calls[i].failed) =>
               IF calls[i].tok.Kind = "tokIndent"
               THEN calls[i].stackAfter = Append(calls[i].stack, calls[i].tok.Value)
               ELSE /\ Len(calls[i].stackAfter) <= Len(calls[i].stack)
                    /\ calls[i].stackAfter
                           = Take(calls[i].stack, Len(calls[i].stackAfter))

\* C26 witness: a line closed the deeper of two levels, the first indented
\* by a space and the second by a tab more, and the space is left
C26_Witness ==
    /\ scan.indents = <<<<" ">>>>
    /\ \E i \in 1..Len(calls) :
           /\ calls[i].stack = <<<<" ">>, <<"\t">>>>
           /\ calls[i].tok.Kind = "tokOutdent"

\* the input opens a raw region one level deep under the tag style and has,
\* further down, the line p at column 0
RawRegionClosed ==
    /\ Len(source) >= 3
    /\ source[2].text = <<" ", "a">>
    /\ \E k \in 3..Len(source) : source[k].text = <<"p">>

\* token i is the tag p, it comes right after an Outdent, and the Outdents
\* delivered before it are as many as the Indents
TagAfterOutdents(i) ==
    /\ i >= 2
    /\ tokens[i].Kind = "tokTag"
    /\ tokens[i].Value = <<"p">>
    /\ tokens[i - 1].Kind = "tokOutdent"
    /\ CountKind(SubSeq(tokens, 1, i), "tokOutdent")
           = CountKind(SubSeq(tokens, 1, i), "tokIndent")

\* C24: when the pump has read such an input to its end, no text token holds
\* the line p, and the line was delivered as the tag p right after the
\* Outdents that close the region, which are as many as the Indents
\* delivered; this also when the region held a line two levels deep, so that
\* the line p closes two levels at once
C24_RawEndsAtOutdent ==
    (PumpDone /\ RawRegionClosed) =>
        /\ \A i \in 1..Len(tokens) :
               tokens[i].Kind = "tokText" =>
                   \A j \in 1..Len(tokens[i].Value) : tokens[i].Value[j] # "p"
        /\ \E i \in 1..Len(tokens) : TagAfterOutdents(i)

\* the tokens the pump is given for a scanner, up to the first end-of-input
\* token or the first failure
RECURSIVE TokensOf(_, _), TokensAfter(_, _)
TokensOf(s, toks) ==
    TokensAfter(Next(IF RawDue(toks) THEN [s EXCEPT !.readRaw = TRUE] ELSE s), toks)

TokensAfter(r, toks) ==
    IF r.panic # "" THEN toks
    ELSE IF r.tok.Kind = "tokEOF" THEN Append(toks, r.tok)
    ELSE TokensOf(r.s, Append(toks, r.tok))

\* the source with a newline at the end of every line
AllEnded(src) == [i \in 1..Len(src) |-> [text |-> src[i].text, nl |-> TRUE]]

\* C38: the tokens of a source are the same whether or not its last line
\* ends with a newline: when the pump has read to its end a source whose
\* last line holds text, it was given the tokens of the source with every
\* line ended
C38_LastLineTokenized ==
    (PumpDone /\ source # <<>> /\ source[Len(source)].text # <<>>) =>
        Take(tokens, Len(tokens) - 1) = TokensOf(newScanner(AllEnded(source)), <<>>)

\* token i is the text that raw capture returned
RawTextAt(i) ==
    /\ tokens[i].Kind = "tokText"
    /\ DataMode(tokens[i]) = "raw"

\* C36: the text that raw capture returns never ends with a line break,
\* however many blank lines stand between the last line of the region and
\* its end, be it an outdent or the end of the input
C36_NoTrailingLineBreak ==
    \A i \in 1..Len(tokens) :
        RawTextAt(i) =>
            \/ tokens[i].Value = <<>>
            \/ tokens[i].Value[Len(tokens[i].Value)] # "\n"

-----------------------------------------------------------------------------
(* Claims about the parser and the generator, over the behaviours of Spec. *)

NotLineBreak(c) == c # "\n"

\* the text without its line breaks
Compact(text) == SelectSeq(text, NotLineBreak)

\* every line of the source ends with a newline
AllTerminated(src) == \A i \in 1..Len(src) : src[i].nl

HasLine(src, line) == \E i \in 1..Len(src) : src[i].text = line

\* a line that starts a top-level construct: not blank, not indented
IsTopLevel(l) == l.text # <<>> /\ l.text[1] \notin Space

\* the kind of node the construct starting with this line stands for
ConstructKind(text) ==
    IF HasPrefix(text, kwDoctype) THEN "Doctype"
    ELSE IF HasPrefix(text, kwBlock \o <<" ">>) THEN "Block"
    ELSE "Tag"

\* the kinds of the top-level constructs of the source, in source order
TopLevelKinds(src) ==
    LET tops == SelectSeq(src, IsTopLevel)
    IN  [i \in 1..Len(tops) |-> ConstructKind(tops[i].text)]

NodeKinds(children) == [i \in 1..Len(children) |-> children[i].kind]

\* the names of the tags among the children, in order
TagNames(children) ==
    [i \in 1..Len(children) |->
        IF children[i].kind = "Tag" THEN children[i].Name ELSE <<>>]

ContentName == <<"c", "o", "n", "t", "e", "n", "t">>

DoctypeHtmlOutput == <<"<", "!", "D", "O", "C", "T", "Y", "P", "E", " ", "h", "t", "m", "l", ">", "<", "h", "t", "m", "l", ">", "<", "/", "h", "t", "m", "l", ">">>

HelloOutput == <<"<", "p", ">", "H", "e", "l", "l", "o", " ", "{", "{", ".", "n", "a", "m", "e", "}", "}", "<", "/", "p", ">">>

\* C1: for a source with no parent, the Block that Parse() returns holds one
\* node per top-level construct of the source, in source order; the two
\* lines `doctype 5` and `html` compile to the HTML5 doctype followed by
\* <html></html>
C1_OneNodePerConstruct ==
    (parser.result # NoNode /\ AllTerminated(source) /\ ~HasLine(source, ExtendLine)) =>
        /\ NodeKinds(Tree.Children) = TopLevelKinds(source)
        /\ source = Terminated(<<DoctypeLine, HtmlLine>>, TRUE) =>
               \A i \in 1..Len(outputs) :
                   /\ outputs[i].error = NoPanic
                   /\ Compact(outputs[i].text) = DoctypeHtmlOutput

\* C2: two fresh Compilers given the same tree and the same options return
\* the same text
C2_SameOutputTwice ==
    Len(outputs) = 2 => outputs[1] = outputs[2]

\* the source starts by extending the parent and redefines "content"
\* without a modifier
RedefinesContent(src) ==
    /\ AllTerminated(src)
    /\ src # <<>>
    /\ src[1].text = ExtendLine
    /\ HasLine(src, ContentLine)

\* C7: when the source extends the parent and redefines "content" with no
\* modifier, the tree Parse() returns is the parent's and the parent's block
\* "content" holds the child's children only
C7_DefaultReplaces ==
    (parser.result # NoNode /\ RedefinesContent(source)) =>
        /\ parser.parent # NoParser
        /\ parser.result = parser.parent.result
        /\ ContentName \in DOMAIN parser.parent.namedBlocks
        /\ TagNames(store[parser.parent.namedBlocks[ContentName]].Children)
               = <<<<"q">>>>

\* the parent's file parsed on its own: its blocks as the parent recorded
\* them, before any child overrides them
ParentAlone == Parse(NewFileParser(ParentName).parser, <<>>)

ParentOriginal(name) ==
    ParentAlone.heap[ParentAlone.p.namedBlocks[name]].Children

\* Parse() returned; the parser has a parent, it registered block name with
\* the modifier, and the parent recorded a block of that name
Overrides(name, modifier) ==
    /\ parser.result # NoNode
    /\ parser.parent # NoParser
    /\ name \in DOMAIN parser.namedBlocks
    /\ store[parser.namedBlocks[name]].Modifier = modifier
    /\ name \in DOMAIN parser.parent.namedBlocks

OursChildren(name) == store[parser.namedBlocks[name]].Children

PrevChildren(name) == store[parser.parent.namedBlocks[name]].Children

\* C8: after Parse(), a block the parser registered with the Append modifier
\* and the parent recorded holds, in the parent, the parent's original
\* children followed by the child's, each group in its order
C8_AppendAfterParent ==
    \A name \in DOMAIN parser.namedBlocks :
        Overrides(name, "NamedBlockAppend") =>
            PrevChildren(name) = ParentOriginal(name) \o OursChildren(name)

\* C8 witness: an Append block of two children was resolved against a parent
\* block that had children of its own
C8_Witness ==
    /\ Overrides(ContentName, "NamedBlockAppend")
    /\ Len(OursChildren(ContentName)) = 2
    /\ Len(PrevChildren(ContentName)) > 2

\* C9: after Parse(), a block the parser registered with the Prepend
\* modifier and the parent recorded holds, in the parent, the child's
\* children followed by the parent's original children, each group in its
\* order
C9_PrependBeforeParent ==
    \A name \in DOMAIN parser.namedBlocks :
        Overrides(name, "NamedBlockPrepend") =>
            PrevChildren(name) = OursChildren(name) \o ParentOriginal(name)

\* C9 witness: a Prepend block of two children was resolved against a parent
\* block that had children of its own
C9_Witness ==
    /\ Overrides(ContentName, "NamedBlockPrepend")
    /\ Len(OursChildren(ContentName)) = 2
    /\ Len(PrevChildren(ContentName)) > 2

-----------------------------------------------------------------------------
(* Claims about the lowering of expressions, over the behaviours of        *)
(* SpecExpr.                                                               *)

\* the actions of a run of bindings, each without its {{ and }}
RECURSIVE ActionsOf(_)
ActionsOf(buf) ==
    IF buf = <<>> THEN <<>>
    ELSE IF IndexFrom(buf, <<"}", "}">>, 1) = 0 THEN <<buf>>
    ELSE <<SubSeq(buf, 3, IndexFrom(buf, <<"}", "}">>, 1) - 1)>>
             \o ActionsOf(Drop(buf, IndexFrom(buf, <<"}", "}">>, 1) + 1))

\* the words of a text, split at single spaces
RECURSIVE Words(_)
Words(s) ==
    IF IndexFrom(s, <<" ">>, 1) = 0 THEN <<s>>
    ELSE <<Take(s, IndexFrom(s, <<" ">>, 1) - 1)>>
             \o Words(Drop(s, IndexFrom(s, <<" ">>, 1)))

\* the actions as sequences of words: the name bound, :=, the function (or
\* the value), the operands
Bindings(buf) == [i \in 1..Len(ActionsOf(buf)) |-> Words(ActionsOf(buf)[i])]

TempPrefix == <<"$", "_", "_", "s", "l", "i", "m", "_">>

\* the temporary a word refers to: the word itself, or what a selector is
\* applied to; the empty text when it refers to none
TempOf(word) ==
    IF HasPrefix(word, TempPrefix)
    THEN Take(word, Len(TempPrefix) + LeadLen(Drop(word, Len(TempPrefix)), Digits))
    ELSE <<>>

\* the temporary is bound by one of the first n actions
BoundWithin(bs, n, temp) == \E h \in 1..n : bs[h][1] = temp

\* every action binds a temporary, and every temporary an action refers to
\* is bound by an earlier action
BoundBeforeUse(bs) ==
    \A i \in 1..Len(bs) :
        /\ Len(bs[i]) >= 3
        /\ TempOf(bs[i][1]) = bs[i][1]
        /\ bs[i][2] = <<":", "=">>
        /\ \A j \in 3..Len(bs[i]) :
               TempOf(bs[i][j]) # <<>> => BoundWithin(bs, i - 1, TempOf(bs[i][j]))

APlusBTimesC ==
    BinaryExpr("ADD", Ident(<<"a">>), BinaryExpr("MUL", Ident(<<"b">>), Ident(<<"c">>)))

SlimMul == <<"_", "_", "s", "l", "i", "m", "_", "m", "u", "l">>

SlimAdd == <<"_", "_", "s", "l", "i", "m", "_", "a", "d", "d">>

\* C11: in what lowering an expression writes, every temporary is bound by
\* an action written before the first action that refers to it, and the
\* reference returned is bound by one of the actions; for a + b * c the
\* multiplication is bound first and the addition takes its temporary as
\* the second operand
C11_BoundBeforeUse ==
    \A k \in 1..Len(lowered) :
        lowered[k].panic = NoPanic =>
            /\ BoundBeforeUse(Bindings(lowered[k].written))
            /\ TempOf(lowered[k].ref) # <<>> =>
                   BoundWithin(Bindings(lowered[k].written),
                               Len(Bindings(lowered[k].written)), lowered[k].ref)
            /\ exprIn = APlusBTimesC =>
                   /\ Len(Bindings(lowered[k].written)) = 2
                   /\ Bindings(lowered[k].written)[1][3] = SlimMul
                   /\ Bindings(lowered[k].written)[2][3] = SlimAdd
                   /\ Bindings(lowered[k].written)[2][4] = <<".", "a">>
                   /\ Bindings(lowered[k].written)[2][5]
                          = Bindings(lowered[k].written)[1][1]
                   /\ lowered[k].ref = Bindings(lowered[k].written)[2][1]

\* C11 witness: a + b * c was lowered
C11_Witness ==
    /\ exprIn = APlusBTimesC
    /\ Len(lowered) = 1
    /\ lowered[1].panic = NoPanic
    /\ Len(lowered[1].written) > 0

\* the reference an operand without operator is lowered to
OperandRef(x) == IF x.type = "Ident" THEN <<".">> \o x.Name ELSE x.Value

\* the helper each comparison is lowered to, as the claim names it
ComparisonFn(op) ==
    CASE op \in {"EQL", "NEQ"} -> <<"_", "_", "s", "l", "i", "m", "_", "e", "q", "l">>
      [] op \in {"LSS", "GEQ"} -> <<"_", "_", "s", "l", "i", "m", "_", "l", "s", "s">>
      [] op \in {"GTR", "LEQ"} -> <<"_", "_", "s", "l", "i", "m", "_", "g", "t", "r">>

NegatedOps == {"NEQ", "LEQ", "GEQ"}

PlainOps == {"EQL", "LSS", "GTR"}

\* no two of the actions bind the same temporary
AllFresh(bs) == \A i \in 1..Len(bs) : \A j \in 1..Len(bs) : i # j => bs[i][1] # bs[j][1]

\* the last action binds T2 to `not T1`, the one before binds T1 to the
\* helper applied to two operands, and T2 is the reference returned
NegatedTail(bs, ref, op) ==
    /\ Len(bs) >= 2
    /\ Len(bs[Len(bs) - 1]) = 5
    /\ bs[Len(bs) - 1][3] = ComparisonFn(op)
    /\ bs[Len(bs)] = <<ref, <<":", "=">>, <<"n", "o", "t">>, bs[Len(bs) - 1][1]>>
    /\ ref # bs[Len(bs) - 1][1]

\* the last action binds the reference returned to the helper applied to two
\* operands, and is no negation
PlainTail(bs, ref, op) ==
    /\ Len(bs) >= 1
    /\ Len(bs[Len(bs)]) = 5
    /\ bs[Len(bs)][1] = ref
    /\ bs[Len(bs)][3] = ComparisonFn(op)

\* the comparison has operands without operators
OfOperands(e) == e.type = "BinaryExpr" /\ e.X \in Operands /\ e.Y \in Operands

\* C12: lowering !=, <= and >= writes the binding of a fresh temporary to
\* __slim_eql, __slim_gtr and __slim_lss of the operands' references, then
\* the binding of a second fresh temporary to the negation of the first, and
\* returns the second; lowering ==, < and > writes the one binding and no
\* negation. With operands L and R that need no temporary these are all the
\* bindings, and they name L before R
C12_ComparisonRewriting ==
    \A k \in 1..Len(lowered) :
        (exprIn.type = "BinaryExpr" /\ exprIn.Op \in NegatedOps \cup PlainOps) =>
            /\ lowered[k].panic = NoPanic
            /\ AllFresh(Bindings(lowered[k].written))
            /\ exprIn.Op \in NegatedOps =>
                   NegatedTail(Bindings(lowered[k].written), lowered[k].ref, exprIn.Op)
            /\ exprIn.Op \in PlainOps =>
                   PlainTail(Bindings(lowered[k].written), lowered[k].ref, exprIn.Op)
            /\ OfOperands(exprIn) =>
                   /\ Len(Bindings(lowered[k].written))
                          = IF exprIn.Op \in NegatedOps THEN 2 ELSE 1
                   /\ SubSeq(Bindings(lowered[k].written)[1], 4, 5)
                          = <<OperandRef(exprIn.X), OperandRef(exprIn.Y)>>

\* C12 witness: a <= 1 was lowered, as the left operand of a comparison that
\* is negated too
C12_Witness ==
    /\ Len(lowered) = 1
    /\ exprIn.type = "BinaryExpr"
    /\ exprIn.Op = "NEQ"
    /\ exprIn.X = BinaryExpr("LEQ", Ident(<<"a">>), BasicLit(<<"1">>))
    /\ Len(Bindings(lowered[1].written)) >= 4

\* the third word of every binding: the function applied, or the value
Functions(bs) == [i \in 1..Len(bs) |-> bs[i][3]]

\* what a fresh Compiler writes for the expression on its own
Alone(e) == Bindings(visitExpression(New(options, <<>>), e).c.buffer)

\* both operands of the binary expression need temporaries
BothNeedTemporaries(e) == e.type = "BinaryExpr" /\ e.X \in Inner /\ e.Y \in Inner

\* the bindings are those of the right operand, then those of the left
\* operand, then the operation's own, which names the reference the left
\* operand's bindings end with before the one the right operand's end with
RightThenLeft(bs, right, left) ==
    /\ Len(bs) > Len(right) + Len(left)
    /\ SubSeq(bs, 1, Len(right)) = right
    /\ Functions(SubSeq(bs, Len(right) + 1, Len(right) + Len(left))) = Functions(left)
    /\ Len(bs[Len(right) + Len(left) + 1]) = 5
    /\ bs[Len(right) + Len(left) + 1][4] = bs[Len(right) + Len(left)][1]
    /\ bs[Len(right) + Len(left) + 1][5] = bs[Len(right)][1]

\* C13: for a binary operation whose operands both need temporaries, all
\* bindings of the right operand are written before all bindings of the left
\* operand, and the operation's own binding names the left operand's
\* reference first and the right operand's second
C13_RightOperandFirst ==
    \A k \in 1..Len(lowered) :
        BothNeedTemporaries(exprIn) =>
            /\ lowered[k].panic = NoPanic
            /\ RightThenLeft(Bindings(lowered[k].written), Alone(exprIn.Y),
                             Alone(exprIn.X))

\* C13 witness: a binary operation was lowered whose operands are different
\* and need two temporaries each
C13_Witness ==
    /\ Len(lowered) = 1
    /\ BothNeedTemporaries(exprIn)
    /\ Len(Alone(exprIn.X)) = 2
    /\ Len(Alone(exprIn.Y)) = 2
    /\ Functions(Alone(exprIn.X)) # Functions(Alone(exprIn.Y))
    /\ Len(Bindings(lowered[1].written)) >= 5

-----------------------------------------------------------------------------
(* Import and extend in a parser made from a file.                         *)

\* the parser was made by NewFileParser and SetPath was not called on it
FileMadeNoPath == parser.filename = ChildName /\ parser.filepath = <<>>

\* Parse() has been called on the parser
ParseCalled == parser.token # NoTok \/ parseErr # NoPanic

\* C14: a parser made from the file t/child.html.slim whose first line is
\* "extend parent" resolves the parent to t/parent.html.slim, a readable
\* file, without SetPath having been called: once Parse() has been called
\* the parser has that file's parser as its parent
C14_FileParserResolves ==
    (/\ FileMadeNoPath
     /\ ParseCalled
     /\ AllTerminated(source)
     /\ source # <<>>
     /\ source[1].text = ExtendLine) =>
        /\ parser.parent # NoParser
        /\ parser.parent.filename = ParentName

-----------------------------------------------------------------------------
(* Named blocks defined twice, and a second extend.                        *)

\* the lines of src that define the named block "content", at any depth
ContentDefinitions(src) ==
    {i \in 1..Len(src) : Drop(src[i].text, LeadLen(src[i].text, Space)) = ContentLine}

\* C15: no parse succeeds for a source holding two definitions of the named
\* block "content", whether the second follows the first or is nested in
\* the body of the first
C15_RedefinitionFails ==
    (AllTerminated(source) /\ Cardinality(ContentDefinitions(source)) >= 2) =>
        parser.result = NoNode

\* the lines of src that are the directive "extend parent"
ExtendDirectives(src) == {i \in 1..Len(src) : src[i].text = ExtendLine}

\* Parse() failed with the multiple-parents error
MultipleParents ==
    /\ parseErr.kind = "SlimError"
    /\ parseErr.cause.msg = "Unable to extend multiple parent templates."

\* C16: once Parse() has been called on a parser with a path for a source
\* holding two extend directives, it has failed with the multiple-parents
\* error
C16_SecondExtendFails ==
    (/\ AllTerminated(source)
     /\ Cardinality(ExtendDirectives(source)) >= 2
     /\ parser.filepath # <<>>
     /\ ParseCalled) => MultipleParents

-----------------------------------------------------------------------------
(* Parse() called again.                                                   *)

\* parser p, with the named blocks of heap, has a parent, registered block
\* name with the modifier, and the parent recorded a block of that name
OverridesIn(p, heap, name, modifier) ==
    /\ p.result # NoNode
    /\ p.parent # NoParser
    /\ name \in DOMAIN p.namedBlocks
    /\ heap[p.namedBlocks[name]].Modifier = modifier
    /\ name \in DOMAIN p.parent.namedBlocks

\* the block the parent recorded under name holds the children of the
\* parser's own block of that name once, after the parent's original
\* children for Append and before them for Prepend
HeldOnce(p, heap, name) ==
    LET ours == heap[p.namedBlocks[name]].Children
        prev == heap[p.parent.namedBlocks[name]].Children
    IN  /\ OverridesIn(p, heap, name, "NamedBlockAppend") =>
               prev = ParentOriginal(name) \o ours
        /\ OverridesIn(p, heap, name, "NamedBlockPrepend") =>
               prev = ours \o ParentOriginal(name)

\* C17: a Parse() call on a parser that has its result leaves the parser as
\* it was (the same result, the scanner where it stood), allocates and
\* changes no named block, does not fail, and leaves every Append or Prepend
\* override applied exactly once
C17_ParseMemoised ==
    [][CallParseAgain =>
          /\ parser' = parser
          /\ store' = store
          /\ parseErr' = NoPanic
          /\ \A name \in DOMAIN parser.namedBlocks :
                 HeldOnce(parser', store', name)]_vars

\* C17 witness: Parse() was called twice more on a parser whose Append block
\* of two children was resolved against the parent's block
C17_Witness ==
    /\ parses >= 2
    /\ Overrides(ContentName, "NamedBlockAppend")
    /\ Len(OursChildren(ContentName)) = 2
    /\ Len(PrevChildren(ContentName)) > 2

-----------------------------------------------------------------------------
(* A compile that fails.                                                   *)

\* C18: a compile that failed returned an error, handed no byte to the
\* writer and returned the empty string, whatever its buffer held by then;
\* a compile that did not fail returned what the writer received
C18_FailedCompileWritesNothing ==
    \A i \in 1..Len(outputs) :
        /\ outputs[i].error # NoPanic =>
               outputs[i].buf = <<>> /\ outputs[i].text = <<>>
        /\ outputs[i].error = NoPanic =>
               outputs[i].text = outputs[i].buf /\ outputs[i].buffer = <<>>

\* C18 witness: a compile failed with the tag p and its text a already in
\* the buffer
C18_Witness ==
    \E i \in 1..Len(outputs) :
        /\ outputs[i].error # NoPanic
        /\ \E k \in 1..Len(outputs[i].buffer) :
               SubSeq(outputs[i].buffer, 1, k) = <<"<", "p", ">", "a">>
        /\ outputs[i].buf = <<>>

-----------------------------------------------------------------------------
(* Id, class and attribute tokens inside blocks.                           *)

\* the lines of item are lines i, i+1, ... of src
HoldsAt(src, item, i) ==
    /\ i + Len(item) - 1 <= Len(src)
    /\ \A j \in 1..Len(item) : src[i + j - 1].text = item[j]

Holds(src, item) == \E i \in 1..Len(src) : HoldsAt(src, item, i)

\* the attributes the three lines in the block of the tag p stand for
OwnedAttributes ==
    <<Attribute(kwId, <<"a">>, TRUE, <<"x">>),
      Attribute(kwClass, <<"b">>, TRUE, <<>>),
      Attribute(<<"c">>, <<>>, TRUE, <<"y">>)>>

\* the tag p carries the three attributes first, and its block has no child
CarriesOwned(node) ==
    /\ node.kind = "Tag"
    /\ node.Name = TagLine
    /\ Len(node.Attributes) >= 3
    /\ SubSeq(node.Attributes, 1, 3) = OwnedAttributes
    /\ node.Block # NoNode
    /\ node.Block.Children = <<>>

\* Parse() failed with the panic message msg
FailedWith(msg) ==
    /\ parser.result = NoNode
    /\ parseErr.kind = "SlimError"
    /\ parseErr.cause.msg = msg

\* C19: when the parse succeeded for a source holding the tag p with a
\* guarded id, a class and a guarded attribute in its block, the tag carries
\* these attributes with their guards and its block has no child; for a
\* source holding such a token in the block of a condition, an each, a
\* comment or a named block, or starting with it in a bare indent, Parse()
\* fails, with the parent-tag message when that construct comes first; and
\* for a source holding a guarded id or attribute on the line of a tag
\* Parse() fails, with the message of parseTag when that line comes first
C19_AttributesInBlocks ==
    AllTerminated(source) =>
        /\ (parser.result # NoNode /\ Holds(source, OwnedByTag)) =>
               \E n \in 1..Len(Tree.Children) : CarriesOwned(Tree.Children[n])
        /\ \A item \in NotOwnedByTag :
               /\ (ParseCalled /\ HoldsAt(source, item, 1)) =>
                      FailedWith("Conditional attributes must be placed immediately within a parent tag.")
               /\ (ParseCalled /\ Holds(source, item) /\ item # <<GuardedIdLine>>) =>
                      parser.result = NoNode /\ parseErr # NoPanic
        /\ (ParseCalled /\ HoldsAt(source, <<TagGuardedIdLine>>, 1)) =>
               FailedWith("Conditional attributes(id) must be placed in a block within a tag.")
        /\ (ParseCalled /\ HoldsAt(source, <<TagGuardedAttributeLine>>, 1)) =>
               FailedWith("Conditional attributes must be placed in a block within a tag.")
        /\ \A item \in GuardedOnTagLine :
               (ParseCalled /\ Holds(source, item)) =>
                   parser.result = NoNode /\ parseErr # NoPanic

-----------------------------------------------------------------------------
(* Loops.                                                                  *)

\* the source starts with the lines of item and was parsed and compiled
\* without failure by compile i
CompiledFirst(item, i) ==
    /\ AllTerminated(source)
    /\ source = Terminated(item, TRUE)
    /\ i \in 1..Len(outputs)
    /\ outputs[i].error = NoPanic

\* what the loops are to generate: the range action with the variables of
\* the each line, the body, the end action
RangeOne == <<"{", "{", "r", "a", "n", "g", "e", " ", "$", "k", " ", ":", "=", " ", ".", "x", "s", "}", "}", "<", "q", ">", "<", "/", "q", ">", "{", "{", "e", "n", "d", "}", "}">>

RangeBoth == <<"{", "{", "r", "a", "n", "g", "e", " ", "$", "k", ",", " ", "$", "v", " ", ":", "=", " ", ".", "x", "s", "}", "}", "<", "q", ">", "<", "/", "q", ">", "{", "{", "e", "n", "d", "}", "}">>

\* C20: the loop with one variable compiles to the range action over $k, the
\* loop with two to the range action over $k, $v, each followed by the body
\* and the end action, and the loop with no body compiles to nothing
C20_RangeNamesVariables ==
    \A i \in 1..Len(outputs) :
        /\ CompiledFirst(<<EachLine, BodyLine>>, i) =>
               Compact(outputs[i].text) = RangeOne
        /\ CompiledFirst(<<EachBothLine, BodyLine>>, i) =>
               Compact(outputs[i].text) = RangeBoth
        /\ CompiledFirst(<<EachLine>>, i) => outputs[i].text = <<>>

-----------------------------------------------------------------------------
(* Assignments.                                                            *)

\* what the assignment is to generate
AssignmentAction == <<"{", "{", "$", "v", " ", ":", "=", " ", ".", "x", "s", "}", "}">>

\* C21: the source `$v = xs` compiles to the action that assigns the lowered
\* expression to $v
C21_AssignmentNamesVariable ==
    \A i \in 1..Len(outputs) :
        CompiledFirst(<<AssignmentLine>>, i) =>
            Compact(outputs[i].text) = AssignmentAction

-----------------------------------------------------------------------------
(* Named blocks in the tree.                                               *)

\* the declarations of the named block "content", one per modifier, each
\* with the tags of its body
Declarations ==
    {<<ContentLine, <<" ", "q">>>>,
     <<AppendLine, <<" ", "q">>, <<" ", "r">>>>,
     <<PrependLine, <<" ", "q">>, <<" ", "r">>>>}

\* the names of the tags in the body of a declaration
BodyTags(item) == [i \in 1..(Len(item) - 1) |-> <<item[i + 1][2]>>]

\* C22: when Parse() succeeded for a source that is a declaration of the
\* named block, with any of the three modifiers, and has no parent, the one
\* node of the tree is a Block, not a NamedBlock, and holds the tags of the
\* declaration's body
C22_ContentsInPlace ==
    \A item \in Declarations :
        (parser.result # NoNode /\ source = Terminated(item, TRUE)) =>
            /\ Tree.Children # <<>>
            /\ Tree.Children[1].kind = "Block"
            /\ TagNames(Tree.Children[1].Children) = BodyTags(item)

-----------------------------------------------------------------------------
(* Extend and import chains that refer back to themselves.                 *)

\* the source extends or imports the parent file first, and the parent file
\* extends or imports itself
ChainRefersBack ==
    /\ AllTerminated(source)
    /\ source # <<>>
    /\ source[1].text \in {ExtendLine, ImportLine}
    /\ files[ParentName][1].text \in {ExtendLine, ImportLine}

\* C23: Parse() on a parser with a path never returns for a source whose
\* extend or import chain refers back to itself: no state is reached in
\* which that Parse() call has returned, with a result or with a panic
C23_CycleNeverReturns ==
    ~(ChainRefersBack /\ parser.filepath # <<>> /\ ParseCalled)


\* the sources of one construct whose first line is the tag p with the text
\* a on its own line
TextOnTagLine == {<<TextLine, MarkupLine>>, <<TextLine, BodyLine>>}

\* C27: parseTag attaches at most one inline Text child to a tag, the text
\* on the tag's own line, as the first child of the body and ahead of the
\* children of a following indented block; a plain-text line that follows
\* the tag at the same indentation is not a child of the tag
C27_OneInlineText ==
    \A item \in TextOnTagLine :
        (source = Terminated(item, TRUE) /\ parser.result # NoNode) =>
            /\ parser.result.Children[1].kind = "Tag"
            /\ parser.result.Children[1].Block.Children[1].kind = "Text"
            /\ parser.result.Children[1].Block.Children[1].Value = <<"a">>
            /\ \A j \in 2..Len(parser.result.Children[1].Block.Children) :
                   parser.result.Children[1].Block.Children[j].kind # "Text"

\* the lines of one shorthand or attribute at the indentation of the tag
ShorthandOnly == {IdOnlyLine, ClassOnlyLine, AttributeOnlyLine}

\* C28: an id, class or bracket-attribute line that follows a tag at the
\* same indentation is not attached to that tag: after the line p and such
\* a line, no tag of the result has an attribute
C28_NextLineNotAttached ==
    \A l \in ShorthandOnly :
        (source = Terminated(<<TagLine, l>>, TRUE) /\ parser.result # NoNode) =>
            \A j \in 1..Len(parser.result.Children) :
                parser.result.Children[j].kind = "Tag" =>
                    parser.result.Children[j].Attributes = <<>>

\* the sources of one tag p with the classes a and b of which one at least
\* carries a guard
GuardedClassItems ==
    {<<TagLine, GuardedFirstClassLine, ClassLine>>,
     <<TagLine, FirstClassLine, GuardedSecondClassLine>>,
     <<TagLine, GuardedFirstClassLine, GuardedSecondClassLine>>}

\* C29 as stated: when either class carries a guard, both values are wrapped
\* in a conditional of their own
C29_BothWrapped ==
    \A item \in GuardedClassItems :
        \A i \in 1..Len(outputs) :
            CompiledFirst(item, i) =>
                /\ Contains(outputs[i].text, <<"{", "{", "\"", "a", "\"", "}", "}", "{", "{", "e", "n", "d", "}", "}">>)
                /\ Contains(outputs[i].text, <<"{", "{", "\"", "b", "\"", "}", "}", "{", "{", "e", "n", "d", "}", "}">>)

\* the opening tag the generator is to write for a source of two classes
MergedClass(item) ==
    IF item = <<TwoClassLine>>
    THEN <<"<", "p", " ", "c", "l", "a", "s", "s", "=", "\"", "{", "{", "\"", "a", "\"", "}", "}", " ", "{", "{", "\"", "b", "\"", "}", "}", "\"", ">">>
    ELSE IF item = <<TagLine, GuardedFirstClassLine, ClassLine>>
    THEN <<"<", "p", " ", "c", "l", "a", "s", "s", "=", "\"", "{", "{", "i", "f", " ", ".", "x", "}", "}", "{", "{", "\"", "a", "\"", "}", "}", "{", "{", "e", "n", "d", "}", "}", " ", "{", "{", "\"", "b", "\"", "}", "}", "\"", ">">>
    ELSE IF item = <<TagLine, FirstClassLine, GuardedSecondClassLine>>
    THEN <<"<", "p", " ", "c", "l", "a", "s", "s", "=", "\"", "{", "{", "\"", "a", "\"", "}", "}", "{", "{", "i", "f", " ", ".", "y", "}", "}", " ", "{", "{", "\"", "b", "\"", "}", "}", "{", "{", "e", "n", "d", "}", "}", "\"", ">">>
    ELSE <<"<", "p", " ", "c", "l", "a", "s", "s", "=", "\"", "{", "{", "i", "f", " ", ".", "x", "}", "}", "{", "{", "\"", "a", "\"", "}", "}", "{", "{", "e", "n", "d", "}", "}", "{", "{", "i", "f", " ", ".", "y", "}", "}", " ", "{", "{", "\"", "b", "\"", "}", "}", "{", "{", "e", "n", "d", "}", "}", "\"", ">">>

\* C29 amended: a tag with two class attributes gets exactly one class
\* attribute, written without a guard, whose value is the two values in
\* source order; the second value is preceded by one space; a value that
\* carries a guard is wrapped in a conditional of its own (the second one
\* together with its space), and a value without a guard is not wrapped
C29_ClassesMerged ==
    \A item \in GuardedClassItems \cup {<<TwoClassLine>>} :
        \A i \in 1..Len(outputs) :
            CompiledFirst(item, i) => Contains(outputs[i].text, MergedClass(item))

\* C29 witness: a tag whose first class only carries a guard was compiled
C29_Witness ==
    CompiledFirst(<<TagLine, GuardedFirstClassLine, ClassLine>>, 1)

\* node is a block that holds the one tag of this name
HoldsTag(node, name) ==
    /\ node.kind = "Block"
    /\ Len(node.Children) = 1
    /\ node.Children[1].kind = "Tag"
    /\ node.Children[1].Name = <<name>>

\* node is the condition on this expression whose positive branch holds the
\* one tag of this name
IsCondition(node, expression, name) ==
    /\ node.kind = "Condition"
    /\ node.Expression = <<expression>>
    /\ HoldsTag(node.Positive, name)

HasElsif(src) ==
    \E i \in 1..Len(src) :
        src[i].text = ElsifLine \/ src[i].text = <<"\t">> \o ElsifLine

\* C31: whenever the parser comes to an elseif token the parse fails: no
\* source holding an elsif line is parsed with success
C31_ElsifFails ==
    (AllTerminated(source) /\ HasElsif(source) /\ ParseCalled) =>
        (parseErr # NoPanic /\ parser.result = NoNode)

\* the failure Parse() ends with when it is called on the parser that
\* NewFileParser makes for the file t/parent.html.slim
ParentFailure == Parse(NewFileParser(ParentName).parser, <<>>).panic

\* the source is one line that extends or imports the parent, the parent's
\* own parse fails, and the parser was given its path before Parse()
FailedInParent ==
    /\ source \in {Terminated(<<ExtendLine>>, TRUE), Terminated(<<ImportLine>>, TRUE)}
    /\ files[ParentName] = Terminated(<<ElsifLine>>, TRUE)
    /\ parser.filepath # <<>>
    /\ ParseCalled

\* C32: a failure of the parse or of the generation is handed to the caller
\* as one Slim Error that wraps the message raised with a position once: a
\* failure of the parser's own file names that file, and a failure inside
\* the extended or imported file is the Slim Error of that file's parser,
\* with its name and position, unchanged
C32_FailuresWrappedOnce ==
    /\ parseErr.kind \in {"none", "SlimError"}
    /\ parseErr.kind = "SlimError" =>
           /\ parseErr.cause.kind = "panic"
           /\ parseErr.Filename \in {parser.filename, ParentName}
    /\ FailedInParent =>
           /\ parseErr = ParentFailure
           /\ parseErr.kind = "SlimError"
           /\ parseErr.Filename = ParentName
    /\ \A i \in 1..Len(outputs) :
           /\ outputs[i].error.kind \in {"none", "SlimError"}
           /\ outputs[i].error.kind = "SlimError" =>
                  outputs[i].error.cause.kind = "panic"

\* C32 witness: the parse failed inside the extended or imported file
C32_Witness == FailedInParent /\ parseErr # NoPanic

\* a generation failed
C32_GenerationFailed == \E i \in 1..Len(outputs) : outputs[i].error # NoPanic

\* the names of the tags in a tree
RECURSIVE TagsIn(_)
TagsIn(node) ==
    IF node.kind = "Block"
    THEN UNION {TagsIn(node.Children[i]) : i \in 1..Len(node.Children)}
    ELSE IF node.kind = "Tag"
    THEN {node.Name} \cup TagsIn(node.Block)
    ELSE {}

\* Parse() returned for a parser that extends a parent
Extended == parser.result # NoNode /\ parser.parent # NoParser

\* C33: when a file extends a parent, the Block its Parse() returns is the
\* Block that is the parent's result; the tag w the child holds outside
\* named blocks and the tag z of its block "other", a name the parent did
\* not record, are nowhere in the tree
C33_ParentsBlockReturned ==
    Extended =>
        /\ parser.result = parser.parent.result
        /\ <<"w">> \notin TagsIn(Tree)
        /\ <<"z">> \notin TagsIn(Tree)

\* C33 witness: the child that extends the parent and holds the tag w and
\* the block "other" was parsed
C33_Witness ==
    /\ Extended
    /\ HasLine(source, <<"w">>)
    /\ <<"o", "t", "h", "e", "r">> \in DOMAIN parser.namedBlocks

SideName == <<"s", "i", "d", "e">>

\* C34: after Parse() of a parser that extends a parent, every block the
\* parent recorded and the parser registered no block for has the children
\* it had after the parent's own Parse(), whatever other blocks were
\* overridden
C34_OtherBlocksKept ==
    Extended =>
        \A name \in DOMAIN parser.parent.namedBlocks :
            name \notin DOMAIN parser.namedBlocks =>
                store[parser.parent.namedBlocks[name]].Children = ParentOriginal(name)

\* C34 witness: the parser overrode the parent's block "content" with the
\* tag q and registered no block "side", which the parent recorded
C34_Witness ==
    /\ Extended
    /\ SideName \in DOMAIN parser.parent.namedBlocks
    /\ SideName \notin DOMAIN parser.namedBlocks
    /\ ContentName \in DOMAIN parser.namedBlocks
    /\ TagNames(store[parser.parent.namedBlocks[ContentName]].Children) = <<<<"q">>>>

\* C35: a bracket attribute is flagged raw exactly when its value was
\* written in double quotes, the quoted empty value included, or it has no
\* value, and flagged expression when an unquoted value was given
C35_RawWhenQuoted ==
    \A l \in BracketLines :
        (source = Terminated(<<l>>, TRUE) /\ parser.result # NoNode) =>
            LET tag == parser.result.Children[1]
            IN  /\ tag.kind = "Tag"
                /\ Len(tag.Attributes) = 1
                /\ tag.Attributes[1].IsRaw = (l # UnquotedLine)

\* C37: a literal is in the generated text exactly as the source expression
\* has it, be it the whole expression or the operand of a call that is
\* bound to a temporary: the string literal "a$b" is found in the text
C37_LiteralVerbatim ==
    \A l \in {LiteralLine, LiteralOperandLine} :
        \A i \in 1..Len(outputs) :
            CompiledFirst(<<l>>, i) =>
                Contains(outputs[i].text, <<"\"", "a", "$", "b", "\"">>)

\* C39: a second CompileString on the Compiler of the compile before it
\* returns the same text as that compile, whatever temporaries the
\* template's expressions need
C39_SameTextAgain ==
    \A i \in 2..Len(outputs) :
        (outputs[i].again /\ outputs[i - 1].error = NoPanic) =>
            /\ outputs[i].error = NoPanic
            /\ outputs[i].text = outputs[i - 1].text

\* the message of the Go runtime when a nil pointer is dereferenced
NilDereference == "runtime error: invalid memory address or nil pointer dereference"

\* the source is the one line given, ended by a newline, and was parsed
ParsedLine(line) ==
    /\ source = Terminated(<<line>>, TRUE)
    /\ parser.result # NoNode

\* C40: the Condition of an `if` line without a body has no positive block,
\* and generating it returns an error (the nil block's dereference, wrapped
\* by visit) and no output; the each without a body generates the empty
\* text and no error
C40_BareIfFails ==
    /\ ParsedLine(IfLine) =>
           /\ Len(Tree.Children) = 1
           /\ Tree.Children[1].kind = "Condition"
           /\ Tree.Children[1].Positive = NoNode
           /\ \A i \in 1..Len(outputs) :
                  /\ outputs[i].error.kind = "SlimError"
                  /\ outputs[i].error.cause.msg = NilDereference
                  /\ outputs[i].text = <<>>
                  /\ outputs[i].buf = <<>>
    /\ ParsedLine(EachLine) =>
           /\ Len(Tree.Children) = 1
           /\ Tree.Children[1].kind = "Range"
           /\ Tree.Children[1].Block = NoNode
           /\ \A i \in 1..Len(outputs) :
                  /\ outputs[i].error = NoPanic
                  /\ outputs[i].text = <<>>

\* C40 witness: the bare `if x` was parsed and its generation has failed
C40_Witness ==
    /\ ParsedLine(IfLine)
    /\ outputs # <<>>
    /\ outputs[1].error # NoPanic

====
